---------------------------- MODULE Spec2Model ----------------------------
(***************************************************************************)
(* Model of the relic build search of nightreign-relic-build-generator:    *)
(* the scoring function, the incremental scorer, the top-K build heap and  *)
(* the branch-and-bound search over the vessel tree (build_finder.py),     *)
(* with the effect / relic / tree model of nightreign.py.                  *)
(***************************************************************************)
EXTENDS Integers, Sequences, FiniteSets, TLC

VARIABLES
    score_table,     \* BuildFinder.score_table / IncrementalScorer.score_table
    scorer,          \* IncrementalScorer: current_score, seen_keys,
                     \* exclusive_taken, active_effects_stack, _change_log
    top,             \* BuildHeap: max_size, _heap, _signatures
    scored_relics,   \* BuildFinder.scored_relics
    vessel_tree,     \* the trie handed to top_builds
    minimum,         \* top_builds(minimum=...)
    used,            \* top_builds: used[index]
    chosen_indices,  \* top_builds: chosen_indices
    stack,           \* the call stack of depth_first_search
    pc,              \* where the running call is
    result,          \* what top_builds returned
    parked,          \* a second top_builds call on the same BuildFinder, its
                     \* own locals and arguments, while it is not running
    call,            \* utility.py: the function called and its arguments
    converter_cache, \* utility.py: _CONVERTER_CACHE
    converter_lock,  \* utility.py: _CONVERTER_LOCK
    threads,         \* the threads that call into the converter registry
    hist             \* what the caller did and saw (observations only)

vars == <<score_table, scorer, top, scored_relics, vessel_tree, minimum,
          used, chosen_indices, stack, pc, result, parked, call,
          converter_cache, converter_lock, threads, hist>>

-----------------------------------------------------------------------------
(* Bounds of the model *)

MaxActive == 3
MaxPushed == 4
MaxCkpts == 2
MaxK == 2

-----------------------------------------------------------------------------
(* utility.py as it is after import, no call into it made *)

NoCall == [function |-> "none"]

\* _CONVERTER_CACHE as the module defines it: type -> converter
BuiltinConverters ==
    [typ \in {"str", "int", "float", "bool"} |->
        IF typ = "bool" THEN "bool_from_string" ELSE typ]

\* _CONVERTER_LOCK, not held: threading.Lock() in
\* nightreign_build_generator, threading.RLock() in
\* nightreign_relic_build_generator
NewLock == [kind |-> "Lock", owner |-> 0, count |-> 0]

NewRLock == [kind |-> "RLock", owner |-> 0, count |-> 0]

Utility == <<call, converter_cache, converter_lock, threads>>

UtilityIdle ==
    /\ call = NoCall
    /\ converter_cache = BuiltinConverters
    /\ converter_lock = NewLock
    /\ threads = <<>>

-----------------------------------------------------------------------------
(* Effects: nightreign.py Effect, classified as Database.get_effect does *)

Vigor == "Vigor"
Frost == "Starting armament deals frost"
Fire == "Starting armament deals fire"
Stamina == "Stamina Recovery"

EffectNames == {Vigor, Frost, Fire, Stamina}

\* Database.STACKABLE_REGEX: of the names above only "Vigor" matches
IsStackableName(name) == name = Vigor

\* STARTING_IMBUE_REGEX "^Starting armament (deals|inflicts) .+$";
\* no name above matches STARTING_SKILL_REGEX. "" is no tag.
ExclusiveOfName(name) == IF name \in {Frost, Fire} THEN "imbue" ELSE ""

get_effect(name, level) ==
    [name |-> name, level |-> level,
     stackable |-> IsStackableName(name),
     exclusive |-> ExclusiveOfName(name)]

\* str.lower() on the names of the model
Lower(name) ==
    CASE name = Vigor -> "vigor"
      [] name = Frost -> "starting armament deals frost"
      [] name = Fire -> "starting armament deals fire"
      [] name = Stamina -> "stamina recovery"
      [] OTHER -> name

\* Effect.qualified_name, lowercased: f"{name} +{level}".lower()
qualified_name_lower(effect) ==
    Lower(effect.name) \o " +" \o ToString(effect.level)

\* f"{effect.name.lower()} +*"
wildcard_name_lower(effect) == Lower(effect.name) \o " +*"

seen_key_of(effect) == <<effect.name, effect.level>>

-----------------------------------------------------------------------------
(* get_scored_effects *)

\* lines 94-108: "name +N", then "name +*", then bare name * (level + 1)
effect_score(effect, table) ==
    IF qualified_name_lower(effect) \in DOMAIN table
    THEN table[qualified_name_lower(effect)]
    ELSE IF wildcard_name_lower(effect) \in DOMAIN table
    THEN table[wildcard_name_lower(effect)]
    ELSE (IF Lower(effect.name) \in DOMAIN table
          THEN table[Lower(effect.name)] ELSE 0) * (effect.level + 1)

\* the loop body with the stackable test left out (every effect treated as
\* non-stackable)
scored_step_no_stack(acc, effect, table) ==
    IF seen_key_of(effect) \notin acc.seen
    THEN LET seen1 == acc.seen \cup {seen_key_of(effect)}
         IN  IF effect.exclusive = "" \/ effect.exclusive \notin acc.seen_exclusive
             THEN [score |-> acc.score + effect_score(effect, table),
                   seen |-> seen1,
                   active |-> Append(acc.active, effect),
                   seen_exclusive |->
                       IF effect.exclusive # ""
                       THEN acc.seen_exclusive \cup {effect.exclusive}
                       ELSE acc.seen_exclusive]
             ELSE [acc EXCEPT !.seen = seen1]
    ELSE acc

\* one iteration of the loop over effects
scored_step(acc, effect, table) ==
    IF effect.stackable \/ seen_key_of(effect) \notin acc.seen
    THEN LET seen1 == acc.seen \cup {seen_key_of(effect)}
         IN  IF effect.exclusive = "" \/ effect.exclusive \notin acc.seen_exclusive
             THEN [score |-> acc.score + effect_score(effect, table),
                   seen |-> seen1,
                   active |-> Append(acc.active, effect),
                   seen_exclusive |->
                       IF effect.exclusive # ""
                       THEN acc.seen_exclusive \cup {effect.exclusive}
                       ELSE acc.seen_exclusive]
             ELSE [acc EXCEPT !.seen = seen1]
    ELSE acc

RECURSIVE scored_loop(_, _, _)
scored_loop(acc, effects, table) ==
    IF effects = <<>> THEN acc
    ELSE scored_loop(scored_step(acc, Head(effects), table), Tail(effects), table)

get_scored_effects(effects, table) ==
    LET acc == scored_loop([score |-> 0, seen |-> {}, active |-> <<>>,
                            seen_exclusive |-> {}], effects, table)
    IN  [active_effects |-> acc.active, score |-> acc.score]

-----------------------------------------------------------------------------
(* IncrementalScorer *)

NewScorer ==
    [current_score |-> 0, seen_keys |-> {}, exclusive_taken |-> {},
     active_effects_stack |-> <<>>, change_log |-> <<>>]

\* _score_of with a default of 1 for a name the table does not have
score_of_absent_one(effect, table) ==
    IF qualified_name_lower(effect) \in DOMAIN table
    THEN table[qualified_name_lower(effect)]
    ELSE (IF Lower(effect.name) \in DOMAIN table
          THEN table[Lower(effect.name)] ELSE 1) * (effect.level + 1)

\* _score_of: "name +N", then bare name * (level + 1)
score_of(effect, table) ==
    IF qualified_name_lower(effect) \in DOMAIN table
    THEN table[qualified_name_lower(effect)]
    ELSE (IF Lower(effect.name) \in DOMAIN table
          THEN table[Lower(effect.name)] ELSE 0) * (effect.level + 1)

ScoreChange(s) == [kind |-> "score", value |-> s]
SeenChange(key) == [kind |-> "seen", key |-> key]
ExclusiveFlagChange(tag) == [kind |-> "exclusive_flag", tag |-> tag]
PushEffectChange(effect) == [kind |-> "push_effect", effect |-> effect]

\* the loop body marking the (name, level) key before the exclusivity test,
\* as get_scored_effects does: an effect skipped for its tag leaves its key
push_effect_marks_skipped(acc, effect, table) ==
    LET sc == acc.sc
        key == seen_key_of(effect)
    IN  IF (~effect.stackable) /\ key \in sc.seen_keys THEN acc
        ELSE IF effect.exclusive # "" /\ effect.exclusive \in sc.exclusive_taken
        THEN [acc EXCEPT !.sc.seen_keys = sc.seen_keys \cup {key},
                         !.sc.change_log = Append(sc.change_log, SeenChange(key))]
        ELSE
          LET log1 == IF ~effect.stackable
                      THEN Append(sc.change_log, SeenChange(key))
                      ELSE sc.change_log
              seen1 == IF ~effect.stackable
                       THEN sc.seen_keys \cup {key} ELSE sc.seen_keys
              log2 == IF effect.exclusive # ""
                      THEN Append(log1, ExclusiveFlagChange(effect.exclusive))
                      ELSE log1
              excl1 == IF effect.exclusive # ""
                       THEN sc.exclusive_taken \cup {effect.exclusive}
                       ELSE sc.exclusive_taken
              s == score_of(effect, table)
              log3 == IF s # 0 THEN Append(log2, ScoreChange(s)) ELSE log2
          IN  [sc |-> [current_score |-> sc.current_score + s,
                       seen_keys |-> seen1,
                       exclusive_taken |-> excl1,
                       active_effects_stack |->
                           Append(sc.active_effects_stack, effect),
                       change_log |-> Append(log3, PushEffectChange(effect))],
               delta |-> acc.delta + s]

\* one iteration of push_relic's loop; acc = [sc, delta]
push_effect(acc, effect, table) ==
    LET sc == acc.sc
        key == seen_key_of(effect)
    IN  IF (~effect.stackable) /\ key \in sc.seen_keys THEN acc
        ELSE IF effect.exclusive # "" /\ effect.exclusive \in sc.exclusive_taken
        THEN acc
        ELSE
          LET log1 == IF ~effect.stackable
                      THEN Append(sc.change_log, SeenChange(key))
                      ELSE sc.change_log
              seen1 == IF ~effect.stackable
                       THEN sc.seen_keys \cup {key} ELSE sc.seen_keys
              newtag == effect.exclusive # ""
                        /\ effect.exclusive \notin sc.exclusive_taken
              log2 == IF newtag
                      THEN Append(log1, ExclusiveFlagChange(effect.exclusive))
                      ELSE log1
              excl1 == IF newtag
                       THEN sc.exclusive_taken \cup {effect.exclusive}
                       ELSE sc.exclusive_taken
              s == score_of(effect, table)
              log3 == IF s # 0 THEN Append(log2, ScoreChange(s)) ELSE log2
          IN  [sc |-> [current_score |-> sc.current_score + s,
                       seen_keys |-> seen1,
                       exclusive_taken |-> excl1,
                       active_effects_stack |->
                           Append(sc.active_effects_stack, effect),
                       change_log |-> Append(log3, PushEffectChange(effect))],
               delta |-> acc.delta + s]

RECURSIVE push_loop(_, _, _)
push_loop(acc, effects, table) ==
    IF effects = <<>> THEN acc
    ELSE push_loop(push_effect(acc, Head(effects), table), Tail(effects), table)

\* push_relic: the scorer after the call and the delta it returns
push_relic(sc, relic, table) ==
    push_loop([sc |-> sc, delta |-> 0], relic.effects_and_curses, table)

push_context(sc) == Len(sc.change_log)

DropLast(s) == SubSeq(s, 1, Len(s) - 1)

\* undo_change that leaves the (name, level) key in seen_keys
undo_change_keeps_seen(sc) ==
    LET change == sc.change_log[Len(sc.change_log)]
        rest == [sc EXCEPT !.change_log = DropLast(sc.change_log)]
    IN  CASE change.kind = "score" ->
               [rest EXCEPT !.current_score = sc.current_score - change.value]
          [] change.kind = "seen" -> rest
          [] change.kind = "exclusive_flag" ->
               [rest EXCEPT !.exclusive_taken = sc.exclusive_taken \ {change.tag}]
          [] change.kind = "push_effect" ->
               [rest EXCEPT !.active_effects_stack =
                                DropLast(sc.active_effects_stack)]

\* undo_change with the exclusive flag left set (a change kind not undone)
undo_change_keeps_flag(sc) ==
    LET change == sc.change_log[Len(sc.change_log)]
        rest == [sc EXCEPT !.change_log = DropLast(sc.change_log)]
    IN  CASE change.kind = "score" ->
               [rest EXCEPT !.current_score = sc.current_score - change.value]
          [] change.kind = "seen" ->
               [rest EXCEPT !.seen_keys = sc.seen_keys \ {change.key}]
          [] change.kind = "exclusive_flag" -> rest
          [] change.kind = "push_effect" ->
               [rest EXCEPT !.active_effects_stack =
                                DropLast(sc.active_effects_stack)]

\* one iteration of pop_context's loop
undo_change(sc) ==
    LET change == sc.change_log[Len(sc.change_log)]
        rest == [sc EXCEPT !.change_log = DropLast(sc.change_log)]
    IN  CASE change.kind = "score" ->
               [rest EXCEPT !.current_score = sc.current_score - change.value]
          [] change.kind = "seen" ->
               [rest EXCEPT !.seen_keys = sc.seen_keys \ {change.key}]
          [] change.kind = "exclusive_flag" ->
               [rest EXCEPT !.exclusive_taken = sc.exclusive_taken \ {change.tag}]
          [] change.kind = "push_effect" ->
               [rest EXCEPT !.active_effects_stack =
                                DropLast(sc.active_effects_stack)]

RECURSIVE pop_context(_, _)
pop_context(sc, token) ==
    IF Len(sc.change_log) > token THEN pop_context(undo_change(sc), token)
    ELSE sc

active_effects(sc) == sc.active_effects_stack

-----------------------------------------------------------------------------
(* BuildHeap; relic indexes are 1-based here and None is written 0 *)

None == 0

NewHeap(max_size) == [max_size |-> max_size, heap |-> <<>>, signatures |-> {}]

Range(s) == {s[i] : i \in 1..Len(s)}

\* a signature that takes in the vessel name too
signature_named(build) ==
    <<build.score, Range(build.relic_indexes), Range(build.active_effects),
      build.vessel_name>>

\* a signature that keeps the slot order (a tuple for the frozenset)
signature_ordered(build) ==
    <<build.score, {build.relic_indexes}, Range(build.active_effects)>>

\* BuildHeap._signature
signature(build) ==
    <<build.score, Range(build.relic_indexes), Range(build.active_effects)>>

\* _Entry.__lt__ (order=True, build excluded from the comparison)
entry_lt(a, b) == a.score < b.score

\* heapq._siftdown(heap, startpos, pos), positions 0-based
RECURSIVE siftdown_loop(_, _, _, _)
siftdown_loop(heap, startpos, pos, newitem) ==
    IF pos > startpos
    THEN LET parentpos == (pos - 1) \div 2
             parent == heap[parentpos + 1]
         IN  IF entry_lt(newitem, parent)
             THEN siftdown_loop([heap EXCEPT ![pos + 1] = parent],
                                startpos, parentpos, newitem)
             ELSE [heap EXCEPT ![pos + 1] = newitem]
    ELSE [heap EXCEPT ![pos + 1] = newitem]

siftdown(heap, startpos, pos) == siftdown_loop(heap, startpos, pos, heap[pos + 1])

\* heappush without the sift (a plain append)
heappush_append(heap, item) == Append(heap, item)

\* heapq.heappush
heappush(heap, item) == siftdown(Append(heap, item), 0, Len(heap))

\* heapq._siftup(heap, pos): bubble the smaller child up to a leaf, then
\* sift the new item down from there
RECURSIVE siftup_loop(_, _, _, _)
siftup_loop(heap, startpos, pos, newitem) ==
    LET endpos == Len(heap)
        leftpos == 2 * pos + 1
        rightpos == leftpos + 1
        childpos == IF rightpos < endpos
                       /\ ~entry_lt(heap[leftpos + 1], heap[rightpos + 1])
                    THEN rightpos ELSE leftpos
    IN  IF leftpos < endpos
        THEN siftup_loop([heap EXCEPT ![pos + 1] = heap[childpos + 1]],
                         startpos, childpos, newitem)
        ELSE siftdown([heap EXCEPT ![pos + 1] = newitem], startpos, pos)

\* heapreplace that puts the item in the last place, not the first
heapreplace_last(heap, item) == [heap EXCEPT ![Len(heap)] = item]

\* heapq.heapreplace: the heap after the call (heap[0] is what it returns)
heapreplace(heap, item) == siftup_loop([heap EXCEPT ![1] = item], 0, 0, item)

\* consider without the signature test
consider_no_dedup(t, build) ==
    LET sig == signature(build)
    IN  IF Len(t.heap) < t.max_size
        THEN [top |-> [t EXCEPT !.heap = heappush(t.heap, build),
                                !.signatures = t.signatures \cup {sig}],
              raised |-> FALSE]
        ELSE IF t.heap = <<>> THEN [top |-> t, raised |-> TRUE]
        ELSE IF build.score > t.heap[1].score
        THEN [top |-> [t EXCEPT !.heap = heapreplace(t.heap, build),
                                !.signatures =
                                    (t.signatures \ {signature(t.heap[1])})
                                        \cup {sig}],
              raised |-> FALSE]
        ELSE [top |-> t, raised |-> FALSE]

\* consider where a full collector takes every new signature (no test of
\* the score)
consider_always_replaces(t, build) ==
    LET sig == signature(build)
    IN  IF sig \in t.signatures THEN [top |-> t, raised |-> FALSE]
        ELSE IF Len(t.heap) < t.max_size
        THEN [top |-> [t EXCEPT !.heap = heappush(t.heap, build),
                                !.signatures = t.signatures \cup {sig}],
              raised |-> FALSE]
        ELSE IF t.heap = <<>> THEN [top |-> t, raised |-> TRUE]
        ELSE [top |-> [t EXCEPT !.heap = heapreplace(t.heap, build),
                                !.signatures =
                                    (t.signatures \ {signature(t.heap[1])})
                                        \cup {sig}],
              raised |-> FALSE]

\* consider that does not discard the signature of the build it evicts
consider_keeps_signature(t, build) ==
    LET sig == signature(build)
    IN  IF sig \in t.signatures THEN [top |-> t, raised |-> FALSE]
        ELSE IF Len(t.heap) < t.max_size
        THEN [top |-> [t EXCEPT !.heap = heappush(t.heap, build),
                                !.signatures = t.signatures \cup {sig}],
              raised |-> FALSE]
        ELSE IF t.heap = <<>> THEN [top |-> t, raised |-> TRUE]
        ELSE IF build.score > t.heap[1].score
        THEN [top |-> [t EXCEPT !.heap = heapreplace(t.heap, build),
                                !.signatures = t.signatures \cup {sig}],
              raised |-> FALSE]
        ELSE [top |-> t, raised |-> FALSE]

\* consider where a tie with the minimum replaces too (>= for >)
consider_ties_replace(t, build) ==
    LET sig == signature(build)
    IN  IF sig \in t.signatures THEN [top |-> t, raised |-> FALSE]
        ELSE IF Len(t.heap) < t.max_size
        THEN [top |-> [t EXCEPT !.heap = heappush(t.heap, build),
                                !.signatures = t.signatures \cup {sig}],
              raised |-> FALSE]
        ELSE IF t.heap = <<>> THEN [top |-> t, raised |-> TRUE]
        ELSE IF build.score >= t.heap[1].score
        THEN [top |-> [t EXCEPT !.heap = heapreplace(t.heap, build),
                                !.signatures =
                                    (t.signatures \ {signature(t.heap[1])})
                                        \cup {sig}],
              raised |-> FALSE]
        ELSE [top |-> t, raised |-> FALSE]

\* BuildHeap.consider: the collector after the call, and whether the call
\* raised (self._heap[0] on an empty list: IndexError)
consider(t, build) ==
    LET sig == signature(build)
    IN  IF sig \in t.signatures THEN [top |-> t, raised |-> FALSE]
        ELSE IF Len(t.heap) < t.max_size
        THEN [top |-> [t EXCEPT !.heap = heappush(t.heap, build),
                                !.signatures = t.signatures \cup {sig}],
              raised |-> FALSE]
        ELSE IF t.heap = <<>> THEN [top |-> t, raised |-> TRUE]
        ELSE IF build.score > t.heap[1].score
        THEN [top |-> [t EXCEPT !.heap = heapreplace(t.heap, build),
                                !.signatures =
                                    (t.signatures \ {signature(t.heap[1])})
                                        \cup {sig}],
              raised |-> FALSE]
        ELSE [top |-> t, raised |-> FALSE]

\* sorted(..., key=score, reverse=True): stable, equal scores keep heap order
RECURSIVE insert_desc(_, _)
insert_desc(sorted, b) ==
    IF sorted = <<>> THEN <<b>>
    ELSE IF Head(sorted).score >= b.score
    THEN <<Head(sorted)>> \o insert_desc(Tail(sorted), b)
    ELSE <<b>> \o sorted

RECURSIVE sorted_desc(_)
sorted_desc(s) ==
    IF s = <<>> THEN <<>>
    ELSE insert_desc(sorted_desc(DropLast(s)), s[Len(s)])

\* results_desc that returns one build for each score held
results_one_per_score(t) ==
    sorted_desc(SelectSeq(t.heap,
        LAMBDA b : \A i, j \in 1..Len(t.heap) :
                      (t.heap[i] = b /\ t.heap[j].score = b.score) => i <= j))

\* results_desc without the sort (the heap list as it lies)
results_heap_order(t) == t.heap

\* BuildHeap.results_desc
results_desc(t) == sorted_desc(t.heap)

-----------------------------------------------------------------------------
(* Inputs: relics (nightreign.py Relic) and score tables *)

Red == "Red"
Blue == "Blue"
DeepRed == "DeepRed"

Relic(color, effects) == [color |-> color, effects_and_curses |-> effects]

RedVigor == Relic(Red, <<get_effect(Vigor, 0)>>)
RedFrostVigor == Relic(Red, <<get_effect(Frost, 0), get_effect(Vigor, 1)>>)
BlueFire == Relic(Blue, <<get_effect(Fire, 0)>>)
BlueVigor == Relic(Blue, <<get_effect(Vigor, 1)>>)
BlueStamina == Relic(Blue, <<get_effect(Stamina, 0), get_effect(Stamina, 0)>>)
DeepRedVigor == Relic(DeepRed, <<get_effect(Vigor, 0)>>)

RelicKinds ==
    {RedVigor, RedFrostVigor, BlueFire, BlueVigor, BlueStamina, DeepRedVigor}

\* score tables as BuildFinder.__post_init__ leaves them: lowercase keys
ScoreTables ==
    { <<>>,
      ("vigor" :> 1),
      ("vigor" :> 2 @@ "starting armament deals frost" :> 1),
      ("vigor +*" :> 1 @@ "vigor" :> 2),
      ("vigor +1" :> 0 @@ "vigor" :> 1 @@ "starting armament deals fire" :> 2),
      ("vigor +0" :> 3 @@ "vigor" :> 2 @@ "stamina recovery" :> 1),
      ("vigor" :> -1 @@ "starting armament deals frost" :> 2) }

EmptyTree == (<<>> :> "")

\* no second call
NoSearch == [pc |-> "none"]

-----------------------------------------------------------------------------
(* The incremental scorer driven by a caller *)

\* the four fields a checkpoint is meant to restore
scorer_view(sc) ==
    [current_score |-> sc.current_score, seen_keys |-> sc.seen_keys,
     exclusive_taken |-> sc.exclusive_taken,
     active_effects |-> active_effects(sc)]

NoLast == [op |-> "none", before |-> NewScorer, relic |-> RedVigor,
           delta |-> 0, snapshot |-> scorer_view(NewScorer), dropped |-> 0]

InitScorer ==
    /\ score_table \in ScoreTables
    /\ scorer = NewScorer
    /\ top = NewHeap(0)
    /\ scored_relics = <<>>
    /\ vessel_tree = EmptyTree
    /\ minimum = 0
    /\ used = <<>>
    /\ chosen_indices = <<>>
    /\ stack = <<>>
    /\ pc = "scorer"
    /\ result = <<>>
    /\ parked = NoSearch
    /\ UtilityIdle
    /\ hist = [pushed |-> <<>>, popped |-> FALSE, ckpts |-> <<>>,
               last |-> NoLast]

ScorerFrame ==
    UNCHANGED <<score_table, top, scored_relics, vessel_tree, minimum, used,
                chosen_indices, stack, pc, result, parked, Utility>>

\* scorer.push_relic(relic)
PushRelic(relic) ==
    /\ pc = "scorer"
    /\ Len(scorer.active_effects_stack) < MaxActive
    /\ Len(hist.pushed) < MaxPushed
    /\ LET r == push_relic(scorer, relic, score_table)
       IN  /\ scorer' = r.sc
           /\ hist' = [hist EXCEPT
                 !.pushed = hist.pushed \o relic.effects_and_curses,
                 !.last = [op |-> "push_relic", before |-> scorer,
                           relic |-> relic, delta |-> r.delta,
                           snapshot |-> scorer_view(scorer),
                           dropped |-> 0]]
    /\ ScorerFrame

\* token = scorer.push_context(); the caller keeps the token
PushContext ==
    /\ pc = "scorer"
    /\ Len(hist.ckpts) < MaxCkpts
    /\ hist' = [hist EXCEPT
          !.ckpts = Append(hist.ckpts, [token |-> push_context(scorer),
                                        snapshot |-> scorer_view(scorer),
                                        npushed |-> Len(hist.pushed)]),
          !.last = [NoLast EXCEPT !.op = "push_context"]]
    /\ UNCHANGED scorer
    /\ ScorerFrame

\* scorer.pop_context(token) with a token the caller holds; tokens taken
\* above the new log length are gone with the entries they marked
PopContext(i) ==
    /\ pc = "scorer"
    /\ i \in 1..Len(hist.ckpts)
    /\ LET ck == hist.ckpts[i]
       IN  /\ scorer' = pop_context(scorer, ck.token)
           /\ hist' = [hist EXCEPT
                 !.pushed = SubSeq(hist.pushed, 1, ck.npushed),
                 !.popped = TRUE,
                 !.ckpts = SubSeq(hist.ckpts, 1, i),
                 !.last = [NoLast EXCEPT !.op = "pop_context",
                                         !.before = scorer,
                                         !.snapshot = ck.snapshot,
                                         !.dropped = Len(hist.ckpts) - i]]
    /\ ScorerFrame

NextScorer ==
    \/ \E relic \in RelicKinds : PushRelic(relic)
    \/ PushContext
    \/ \E i \in 1..MaxCkpts : PopContext(i)

SpecScorer == InitScorer /\ [][NextScorer]_vars

-----------------------------------------------------------------------------
(* The build heap driven by a caller *)

Build(vessel_name, relic_indexes, score, effects) ==
    [vessel_name |-> vessel_name, relic_indexes |-> relic_indexes,
     score |-> score, active_effects |-> effects]

\* builds a caller may submit: two vessels that seat the same relics in
\* opposite slot order, three scores, two effect lists
HeapBuilds ==
    {Build(IF ri = <<1, 2>> THEN "Urn" ELSE "Goblet", ri, s, ae) :
        ri \in {<<1, 2>>, <<2, 1>>}, s \in {0, 1, 2},
        ae \in {<<>>, <<get_effect(Vigor, 0)>>}}

NoBuild == Build("", <<>>, 0, <<>>)

InitHeap ==
    /\ top \in {NewHeap(k) : k \in 1..MaxK}
    /\ score_table = <<>>
    /\ scorer = NewScorer
    /\ scored_relics = <<>>
    /\ vessel_tree = EmptyTree
    /\ minimum = 0
    /\ used = <<>>
    /\ chosen_indices = <<>>
    /\ stack = <<>>
    /\ pc = "heap"
    /\ result = <<>>
    /\ parked = NoSearch
    /\ UtilityIdle
    /\ hist = [submitted |-> {}, dropped |-> {},
               last |-> [op |-> "none", build |-> NoBuild, before |-> top]]

\* top.consider(build)
Consider(build) ==
    /\ pc = "heap"
    /\ LET r == consider(top, build)
           sig == signature(build)
           full == Len(top.heap) = top.max_size
       IN  /\ ~r.raised
           /\ top' = r.top
           /\ hist' = [submitted |-> hist.submitted \cup {sig},
                       dropped |->
                           hist.dropped
                           \cup (IF full /\ sig \notin top.signatures
                                    /\ build \notin Range(r.top.heap)
                                 THEN {build.score} ELSE {})
                           \cup {b.score : b \in Range(top.heap)
                                                  \ Range(r.top.heap)},
                       last |-> [op |-> "consider", build |-> build,
                                 before |-> top]]
    /\ UNCHANGED <<score_table, scorer, scored_relics, vessel_tree, minimum,
                   used, chosen_indices, stack, pc, result, parked, Utility>>

\* top.results_desc(); the caller keeps the list it got
ResultsDesc ==
    /\ pc = "heap"
    /\ result' = results_desc(top)
    /\ hist' = [hist EXCEPT !.last = [op |-> "results_desc", build |-> NoBuild,
                                      before |-> top]]
    /\ UNCHANGED <<score_table, scorer, top, scored_relics, vessel_tree,
                   minimum, used, chosen_indices, stack, pc, parked, Utility>>

NextHeap ==
    \/ \E build \in HeapBuilds : Consider(build)
    \/ ResultsDesc

SpecHeap == InitHeap /\ [][NextHeap]_vars

-----------------------------------------------------------------------------
(* The vessel tree: nightreign.py UrnTree, a node being the path of edge   *)
(* keys that leads to it and the tree the map from its nodes to names      *)

Wildcard == "None"

\* Color.is_deep
is_deep(color) ==
    color \in {"DeepBlue", "DeepGreen", "DeepRed", "DeepYellow"}

\* sorted(keys, key=lambda k: (k is None, str(k))): the Color values in
\* string order, the wildcard last
KeyOrder ==
    <<"Blue", "DeepBlue", "DeepGreen", "DeepRed", "DeepYellow", "Green",
      "Red", "UNKNOWN", "Yellow", Wildcard>>

Prefixes(colors) == {SubSeq(colors, 1, n) : n \in 0..Len(colors)}

\* UrnTree.add_single
add_single(tree, name, colors) ==
    [p \in DOMAIN tree \cup Prefixes(colors) |->
        IF p = colors THEN name
        ELSE IF p \in DOMAIN tree THEN tree[p] ELSE ""]

\* UrnTree.add, over the items of name_to_colors in dict order
RECURSIVE add(_, _)
add(tree, name_to_colors) ==
    IF name_to_colors = <<>> THEN tree
    ELSE add(add_single(tree, Head(name_to_colors)[1], Head(name_to_colors)[2]),
             Tail(name_to_colors))

\* UrnTree(name_to_colors)
UrnTree(name_to_colors) == add(EmptyTree, name_to_colors)

\* node.next.keys()
next_keys(tree, node) == {k \in Range(KeyOrder) : Append(node, k) \in DOMAIN tree}

sorted_keys(tree, node) ==
    SelectSeq(KeyOrder, LAMBDA k : k \in next_keys(tree, node))

\* remaining_depth: the longest path from the node to a leaf
RECURSIVE remaining_depth(_, _)
remaining_depth(tree, node) ==
    IF next_keys(tree, node) = {} THEN 0
    ELSE LET ds == {remaining_depth(tree, Append(node, k)) :
                        k \in next_keys(tree, node)}
         IN  1 + CHOOSE d \in ds : \A e \in ds : e <= d

\* depth_cached: remaining_depth behind a cache
depth_cached(tree, node) == remaining_depth(tree, node)

-----------------------------------------------------------------------------
(* BuildFinder: the pre-filter and the candidate orders of top_builds *)

\* the pre-filter with > for >=
RECURSIVE scored_relics_above(_, _, _)
scored_relics_above(relics, table, prune) ==
    IF relics = <<>> THEN <<>>
    ELSE LET score == get_scored_effects(Head(relics).effects_and_curses,
                                         table).score
             rest == scored_relics_above(Tail(relics), table, prune)
         IN  IF score > prune
             THEN <<[relic |-> Head(relics), score |-> score]>> \o rest
             ELSE rest

\* __post_init__: the relics whose stand-alone score reaches prune
RECURSIVE scored_relics_of(_, _, _)
scored_relics_of(relics, table, prune) ==
    IF relics = <<>> THEN <<>>
    ELSE LET score == get_scored_effects(Head(relics).effects_and_curses,
                                         table).score
             rest == scored_relics_of(Tail(relics), table, prune)
         IN  IF score >= prune
             THEN <<[relic |-> Head(relics), score |-> score]>> \o rest
             ELSE rest

\* lst.sort(key=score, reverse=True): stable
RECURSIVE insert_by_score(_, _, _)
insert_by_score(sorted, i, sr) ==
    IF sorted = <<>> THEN <<i>>
    ELSE IF sr[Head(sorted)].score >= sr[i].score
    THEN <<Head(sorted)>> \o insert_by_score(Tail(sorted), i, sr)
    ELSE <<i>> \o sorted

\* the positions left in the order of the relic list (no sort)
unsorted(positions, sr) == positions

RECURSIVE sort_by_score(_, _)
sort_by_score(positions, sr) ==
    IF positions = <<>> THEN <<>>
    ELSE insert_by_score(sort_by_score(DropLast(positions), sr),
                         positions[Len(positions)], sr)

Indexes(sr) == [i \in 1..Len(sr) |-> i]

\* positions_by_color.get(color, [])
positions_by_color(sr, color) ==
    sort_by_score(SelectSeq(Indexes(sr), LAMBDA i : sr[i].relic.color = color),
                  sr)

\* the wildcard pool without the is_deep test
all_positions(sr) == sort_by_score(Indexes(sr), sr)

all_non_deep_positions(sr) ==
    sort_by_score(SelectSeq(Indexes(sr),
                            LAMBDA i : ~is_deep(sr[i].relic.color)), sr)

\* the candidates of an edge, lines 545-548
candidates(sr, required_color) ==
    IF required_color = Wildcard THEN all_non_deep_positions(sr)
    ELSE positions_by_color(sr, required_color)

RECURSIVE sum_first(_, _, _)
sum_first(pool, k, sr) ==
    IF pool = <<>> \/ k <= 0 THEN 0
    ELSE sr[Head(pool)].score + sum_first(Tail(pool), k - 1, sr)

\* optimistic_bound(remaining_slots, wildcard, required_color)
optimistic_bound(sr, u, remaining_slots, required_color) ==
    IF remaining_slots <= 0 THEN 0
    ELSE sum_first(SelectSeq(candidates(sr, required_color), LAMBDA i : ~u[i]),
                   remaining_slots, sr)

MaxOf(a, b) == IF a >= b THEN a ELSE b

RECURSIVE max_over(_, _)
max_over(best, values) ==
    IF values = {} THEN best
    ELSE LET v == CHOOSE x \in values : TRUE
         IN  max_over(MaxOf(best, v), values \ {v})

\* the while loop of path_bound
RECURSIVE path_bound_loop(_, _, _, _, _, _, _)
path_bound_loop(tree, sr, u, nodes, levels, depth_from_here, total) ==
    IF nodes = {} \/ levels >= depth_from_here THEN total
    ELSE LET edges == {<<nd, k>> : nd \in nodes, k \in Range(KeyOrder)}
             present == {e \in edges : e[2] \in next_keys(tree, e[1])}
             step_best ==
                 max_over(0, {optimistic_bound(sr, u, 1, e[2]) : e \in present})
         IN  IF present = {} THEN total
             ELSE path_bound_loop(tree, sr, u,
                                  {Append(e[1], e[2]) : e \in present},
                                  levels + 1, depth_from_here,
                                  total + step_best)

\* path_bound(node, depth_from_here)
path_bound(tree, sr, u, node, depth_from_here) ==
    IF depth_from_here <= 0 THEN 0
    ELSE path_bound_loop(tree, sr, u, {node}, 0, depth_from_here, 0)

-----------------------------------------------------------------------------
(* BuildFinder.top_builds: depth_first_search as a machine with its own    *)
(* call stack; a frame is one call, label the place the call has reached   *)

MaxRelics == 3

SearchRelicKinds == {RedVigor, RedFrostVigor, BlueFire, DeepRedVigor}

RelicLists == UNION {[1..n -> SearchRelicKinds] : n \in 0..MaxRelics}

SearchTables ==
    { ("vigor" :> 1),
      ("vigor" :> 2 @@ "starting armament deals frost" :> 1),
      ("vigor +*" :> 1 @@ "vigor" :> 2),
      ("vigor +1" :> 0 @@ "vigor" :> 1 @@ "starting armament deals fire" :> 2) }

\* name_to_colors of the vessel trees searched
TargetMaps ==
    { << <<"Urn", <<Red, Blue>> >> >>,
      << <<"Urn", <<Red, Wildcard>> >>, <<"Goblet", <<Red, Blue>> >> >>,
      << <<"Chalice", <<Wildcard, Wildcard>> >> >>,
      << <<"Cup", <<Red>> >>, <<"Urn", <<Red, DeepRed>> >>,
         <<"Goblet", <<Blue>> >> >> }

Counts == 0..MaxK
Minimums == {0, 1, 3}
Prunes == {0, 1}

\* what is seen of a search: the relics and prune the BuildFinder was made
\* with, the relic_indexes of the builds handed to consider, the number of
\* nodes entered, and which of the calls is running
NewSeen(relics, prune) ==
    [relics |-> relics, prune |-> prune, submitted |-> <<>>, visited |-> 0,
     running |-> 1]

\* the same for a search whose caller also keeps, for every candidate or
\* empty slot under trial, what the search held just before the trial,
\* the (node, chosen_indices) of every entry to depth_first_search, the
\* signatures of the builds the collector has evicted, and those of them
\* that were handed to consider again
NewWatched(relics, prune) ==
    [relics |-> relics, prune |-> prune, submitted |-> <<>>, visited |-> 0,
     running |-> 1, before |-> <<>>, entered |-> <<>>, evicted |-> {},
     again |-> {}]

\* what the search holds between two trials
Held ==
    [used |-> used, chosen_indices |-> chosen_indices,
     scorer |-> scorer_view(scorer)]

\* a trial begins / is over (kept only by a caller that watches)
TrialBegins(seen) ==
    IF "before" \in DOMAIN seen
    THEN [seen EXCEPT !.before = Append(seen.before, Held)]
    ELSE seen

TrialOver(seen) ==
    IF "before" \in DOMAIN seen
    THEN [seen EXCEPT !.before = DropLast(seen.before)]
    ELSE seen

\* depth_first_search(node) is entered, the builds of `considered` are
\* handed to consider, and top goes from `before` to `after` (kept only by
\* a caller that watches)
Entered(seen, node, considered, before, after) ==
    IF "entered" \in DOMAIN seen
    THEN [seen EXCEPT
             !.entered = Append(seen.entered, <<node, chosen_indices>>),
             !.evicted = seen.evicted
                             \cup {signature(b) :
                                      b \in Range(before.heap)
                                                \ Range(after.heap)},
             !.again = seen.again
                           \cup ({signature(b) : b \in considered}
                                     \cap seen.evicted)]
    ELSE seen

NewFrame(node) ==
    [node |-> node, label |-> "visit", bar |-> 0, keys |-> <<>>, ki |-> 0,
     ci |-> 0, used_any |-> FALSE, token |-> 0, index |-> 0]

InitSearch ==
    \E relics \in RelicLists, table \in SearchTables, prune \in Prunes,
       name_to_colors \in TargetMaps, count \in Counts, m \in Minimums :
        /\ score_table = table
        /\ scored_relics = scored_relics_of(relics, table, prune)
        /\ vessel_tree = UrnTree(name_to_colors)
        /\ minimum = m
        /\ top = NewHeap(count)
        /\ used = [i \in 1..Len(scored_relics) |-> FALSE]
        /\ chosen_indices = <<>>
        /\ scorer = NewScorer
        /\ stack = <<NewFrame(<<>>)>>
        /\ pc = "search"
        /\ result = <<>>
        /\ parked = NoSearch
        /\ UtilityIdle
        /\ hist = NewSeen(relics, prune)

Frame == stack[Len(stack)]

SetFrame(f) == [stack EXCEPT ![Len(stack)] = f]

Return == DropLast(stack)

Inputs ==
    <<score_table, scored_relics, vessel_tree, minimum, parked, Utility>>

\* lines 513-524: submit the build of a named node; a leaf returns
Visit ==
    /\ pc = "search" /\ stack # <<>> /\ Frame.label = "visit"
    /\ LET node == Frame.node
           current_build == Build(vessel_tree[node], chosen_indices,
                                  scorer.current_score, active_effects(scorer))
           submit == vessel_tree[node] # "" /\ current_build.score >= minimum
           r == IF submit THEN consider(top, current_build)
                ELSE [top |-> top, raised |-> FALSE]
       IN  /\ hist' = Entered([hist EXCEPT
                 !.visited = hist.visited + 1,
                 !.submitted = IF submit
                               THEN Append(hist.submitted,
                                           current_build.relic_indexes)
                               ELSE hist.submitted],
                            node, IF submit THEN {current_build} ELSE {},
                            top, r.top)
           /\ IF r.raised
              THEN pc' = "raised" /\ UNCHANGED <<top, stack>>
              ELSE /\ top' = r.top
                   /\ pc' = pc
                   /\ stack' = IF next_keys(vessel_tree, node) = {} THEN Return
                               ELSE SetFrame([Frame EXCEPT !.label = "bound"])
    /\ UNCHANGED <<Inputs, scorer, used, chosen_indices, result>>

\* lines 526-540: the bar, the bound of the subtree, the prune
NodeBound ==
    /\ pc = "search" /\ stack # <<>> /\ Frame.label = "bound"
    /\ LET node == Frame.node
           full == Len(top.heap) = top.max_size
           bar == IF full THEN MaxOf(minimum, top.heap[1].score) ELSE minimum
           rem_depth == depth_cached(vessel_tree, node)
           optimistic_future ==
               path_bound(vessel_tree, scored_relics, used, node, rem_depth)
       IN  IF full /\ top.heap = <<>>
           THEN pc' = "raised" /\ UNCHANGED stack
           ELSE /\ pc' = pc
                /\ stack' =
                     IF scorer.current_score + optimistic_future < bar
                     THEN Return
                     ELSE SetFrame([Frame EXCEPT
                              !.label = "cand", !.bar = bar,
                              !.keys = sorted_keys(vessel_tree, node),
                              !.ki = 1, !.ci = 1, !.used_any = FALSE])
    /\ UNCHANGED <<Inputs, scorer, top, used, chosen_indices, result, hist>>

FrameCandidates == candidates(scored_relics, Frame.keys[Frame.ki])

\* the next candidate of the edge, in use or not
NextInUseOrNot == IF Frame.ci <= Len(FrameCandidates) THEN Frame.ci ELSE 0

\* the next candidate of the edge that is not in use, 0 when there is none
NextUnused ==
    LET js == {j \in Frame.ci..Len(FrameCandidates) : ~used[FrameCandidates[j]]}
    IN  IF js = {} THEN 0 ELSE CHOOSE j \in js : \A k \in js : j <= k

Child == Append(Frame.node, Frame.keys[Frame.ki])

\* the end of one pass of the loop over the edges: the next edge, or return
NextEdge ==
    IF Frame.ki < Len(Frame.keys)
    THEN SetFrame([Frame EXCEPT !.label = "cand", !.ki = Frame.ki + 1,
                                !.ci = 1, !.used_any = FALSE])
    ELSE Return

\* lines 552-576: take the next unused candidate, push it, and recurse
\* into the child when the refreshed bound clears the bar
TryCandidate ==
    /\ pc = "search" /\ stack # <<>> /\ Frame.label = "cand"
    /\ NextUnused # 0
    /\ LET index == FrameCandidates[NextUnused]
           token == push_context(scorer)
           used1 == [used EXCEPT ![index] = TRUE]
           scorer1 == push_relic(scorer, scored_relics[index].relic,
                                 score_table).sc
           rem_depth_child == depth_cached(vessel_tree, Child)
           optimistic_future_child ==
               path_bound(vessel_tree, scored_relics, used1, Child,
                          rem_depth_child)
           here == [Frame EXCEPT !.label = "back", !.ci = NextUnused,
                                 !.used_any = TRUE, !.token = token,
                                 !.index = index]
       IN  /\ used' = used1
           /\ chosen_indices' = Append(chosen_indices, index)
           /\ scorer' = scorer1
           /\ stack' =
                IF scorer1.current_score + optimistic_future_child >= Frame.bar
                THEN Append(SetFrame(here), NewFrame(Child))
                ELSE SetFrame(here)
    /\ hist' = TrialBegins(hist)
    /\ UNCHANGED <<Inputs, top, pc, result>>

\* the backtrack that leaves the loop on the candidate it has just tried
BacktrackSameCandidate ==
    /\ pc = "search" /\ stack # <<>> /\ Frame.label = "back"
    /\ chosen_indices' = DropLast(chosen_indices)
    /\ used' = [used EXCEPT ![Frame.index] = FALSE]
    /\ scorer' = pop_context(scorer, Frame.token)
    /\ stack' = SetFrame([Frame EXCEPT !.label = "cand", !.ci = Frame.ci])
    /\ hist' = TrialOver(hist)
    /\ UNCHANGED <<Inputs, top, pc, result>>

\* the backtrack without used[index] = False
BacktrackKeepsUsed ==
    /\ pc = "search" /\ stack # <<>> /\ Frame.label = "back"
    /\ chosen_indices' = DropLast(chosen_indices)
    /\ used' = used
    /\ scorer' = pop_context(scorer, Frame.token)
    /\ stack' = SetFrame([Frame EXCEPT !.label = "cand", !.ci = Frame.ci + 1])
    /\ hist' = TrialOver(hist)
    /\ UNCHANGED <<Inputs, top, pc, result>>

\* lines 578-581: backtrack
Backtrack ==
    /\ pc = "search" /\ stack # <<>> /\ Frame.label = "back"
    /\ chosen_indices' = DropLast(chosen_indices)
    /\ used' = [used EXCEPT ![Frame.index] = FALSE]
    /\ scorer' = pop_context(scorer, Frame.token)
    /\ stack' = SetFrame([Frame EXCEPT !.label = "cand", !.ci = Frame.ci + 1])
    /\ hist' = TrialOver(hist)
    /\ UNCHANGED <<Inputs, top, pc, result>>

\* the candidates of the edge are exhausted and one was usable
EdgeDone ==
    /\ pc = "search" /\ stack # <<>> /\ Frame.label = "cand"
    /\ NextUnused = 0 /\ Frame.used_any
    /\ stack' = NextEdge
    /\ UNCHANGED <<Inputs, scorer, top, used, chosen_indices, pc, result, hist>>

\* lines 583-586: nothing was usable, the slot stays empty
EmptySlot ==
    /\ pc = "search" /\ stack # <<>> /\ Frame.label = "cand"
    /\ NextUnused = 0 /\ ~Frame.used_any
    /\ chosen_indices' = Append(chosen_indices, None)
    /\ stack' = Append(SetFrame([Frame EXCEPT !.label = "emptyback"]),
                       NewFrame(Child))
    /\ hist' = TrialBegins(hist)
    /\ UNCHANGED <<Inputs, scorer, top, used, pc, result>>

\* line 587
EmptyBack ==
    /\ pc = "search" /\ stack # <<>> /\ Frame.label = "emptyback"
    /\ chosen_indices' = DropLast(chosen_indices)
    /\ stack' = NextEdge
    /\ hist' = TrialOver(hist)
    /\ UNCHANGED <<Inputs, scorer, top, used, pc, result>>

\* lines 589-590
Finish ==
    /\ pc = "search" /\ stack = <<>>
    /\ result' = results_desc(top)
    /\ pc' = "done"
    /\ UNCHANGED <<Inputs, scorer, top, used, chosen_indices, stack, hist>>

NextSearch ==
    \/ Visit
    \/ NodeBound
    \/ TryCandidate
    \/ Backtrack
    \/ EdgeDone
    \/ EmptySlot
    \/ EmptyBack
    \/ Finish

SpecSearch == InitSearch /\ [][NextSearch]_vars

-----------------------------------------------------------------------------
(* top_builds on a three-slot vessel (Red, Blue, wildcard) with relics that *)
(* each carry one level-0 Vigor, scored 10                                  *)

BlueVigor0 == Relic(Blue, <<get_effect(Vigor, 0)>>)

ScenarioRelicKinds == {RedVigor, BlueVigor0}

ScenarioRelicLists == UNION {[1..n -> ScenarioRelicKinds] : n \in 0..MaxRelics}

ScenarioTable == ("vigor" :> 10)

ScenarioTargets == << <<"Urn", <<Red, Blue, Wildcard>> >> >>

\* BuildFinder(relics, score_json, prune).top_builds(tree, count, minimum)
\* about to run
StartSearch(relics, table, prune, name_to_colors, count, m) ==
    /\ score_table = table
    /\ scored_relics = scored_relics_of(relics, table, prune)
    /\ vessel_tree = UrnTree(name_to_colors)
    /\ minimum = m
    /\ top = NewHeap(count)
    /\ used = [i \in 1..Len(scored_relics) |-> FALSE]
    /\ chosen_indices = <<>>
    /\ scorer = NewScorer
    /\ stack = <<NewFrame(<<>>)>>
    /\ pc = "search"
    /\ result = <<>>
    /\ UtilityIdle
    /\ hist = NewSeen(relics, prune)

InitScenario ==
    \E relics \in ScenarioRelicLists, count \in {1, 5}, m \in {1, 31} :
        /\ StartSearch(relics, ScenarioTable, 1, ScenarioTargets, count, m)
        /\ parked = NoSearch

SpecScenario == InitScenario /\ [][NextSearch]_vars

-----------------------------------------------------------------------------
(* top_builds as any caller may call it: count, minimum and prune are ints *)
(* and nothing in BuildFinder or top_builds restricts them                 *)

AnyRelicLists == UNION {[1..n -> {RedVigor, BlueFire}] : n \in 0..MaxRelics}

\* name_to_colors, the empty mapping among them
AnyTargets ==
    { <<>>,
      << <<"Cup", <<Red>> >>, <<"Urn", <<Red, Blue>> >> >>,
      << <<"Chalice", <<Wildcard>> >> >> }

AnyCounts == {-1, 0, 1, 2}

AnyThresholds == {-1, 0, 1}

InitAny ==
    \E relics \in AnyRelicLists, name_to_colors \in AnyTargets,
       count \in AnyCounts, m \in AnyThresholds, prune \in AnyThresholds :
        /\ StartSearch(relics, ("vigor" :> 1), prune, name_to_colors, count, m)
        /\ parked = NoSearch

SpecAny == InitAny /\ [][NextSearch]_vars

-----------------------------------------------------------------------------
(* top_builds watched trial by trial, on the trees of SpecSearch, with      *)
(* relics of three categories, one of them deep                             *)

WalkRelicLists == UNION {[1..n -> SearchRelicKinds] : n \in 0..MaxRelics}

WalkTables ==
    { ("vigor" :> 2 @@ "starting armament deals frost" :> 1),
      ("vigor +*" :> 1 @@ "vigor" :> 2) }

InitWalk ==
    \E relics \in WalkRelicLists, table \in WalkTables,
       name_to_colors \in TargetMaps, count \in {1, 2}, m \in {0, 3} :
        /\ score_table = table
        /\ scored_relics = scored_relics_of(relics, table, 0)
        /\ vessel_tree = UrnTree(name_to_colors)
        /\ minimum = m
        /\ top = NewHeap(count)
        /\ used = [i \in 1..Len(scored_relics) |-> FALSE]
        /\ chosen_indices = <<>>
        /\ scorer = NewScorer
        /\ stack = <<NewFrame(<<>>)>>
        /\ pc = "search"
        /\ result = <<>>
        /\ parked = NoSearch
        /\ UtilityIdle
        /\ hist = NewWatched(relics, 0)

SpecWalk == InitWalk /\ [][NextSearch]_vars

\* the call runs on: no step of depth_first_search waits for anything.
\* This is weak fairness of NextSearch, written out with pc = "search" for
\* the states in which a step of the search is enabled
SpecWalkRuns ==
    SpecWalk /\ ([]<>(pc # "search") \/ []<><<NextSearch>>_vars)

-----------------------------------------------------------------------------
(* Two top_builds calls on one BuildFinder and one tree, their steps       *)
(* interleaved: the call that is not running keeps its locals in parked    *)

TwoRelicLists == {<<RedVigor>>, <<RedFrostVigor, BlueFire, RedVigor>>}

TwoTable == ("vigor +1" :> 0 @@ "vigor" :> 1 @@ "starting armament deals fire" :> 2)

TwoTargets ==
    { << <<"Urn", <<Red, Blue>> >> >>,
      << <<"Urn", <<Red, Wildcard>> >>, <<"Goblet", <<Red, Blue>> >> >> }

\* top_builds lines 376-399: what a call owns, and the mapping the tree it
\* was handed was built from
Locals ==
    [scorer |-> scorer, top |-> top, used |-> used,
     chosen_indices |-> chosen_indices, stack |-> stack, pc |-> pc,
     result |-> result, minimum |-> minimum,
     submitted |-> hist.submitted, visited |-> hist.visited,
     name_to_colors |-> parked.name_to_colors]

InitTwo ==
    \E relics \in TwoRelicLists, name_to_colors \in TwoTargets,
       count1 \in 1..MaxK, count2 \in 1..MaxK, m1 \in {0, 1}, m2 \in {0, 1} :
        /\ StartSearch(relics, TwoTable, 0, name_to_colors, count1, m1)
        /\ parked = [scorer |-> NewScorer, top |-> NewHeap(count2),
                     used |-> [i \in 1..Len(scored_relics) |-> FALSE],
                     chosen_indices |-> <<>>, stack |-> <<NewFrame(<<>>)>>,
                     pc |-> "search", result |-> <<>>, minimum |-> m2,
                     submitted |-> <<>>, visited |-> 0,
                     name_to_colors |-> name_to_colors]

\* the two calls on one list of used flags
SwitchSharedUsed ==
    /\ parked # NoSearch
    /\ scorer' = parked.scorer
    /\ top' = parked.top
    /\ used' = used
    /\ chosen_indices' = parked.chosen_indices
    /\ stack' = parked.stack
    /\ pc' = parked.pc
    /\ result' = parked.result
    /\ minimum' = parked.minimum
    /\ parked' = Locals
    /\ hist' = [hist EXCEPT !.submitted = parked.submitted,
                            !.visited = parked.visited,
                            !.running = 3 - hist.running]
    /\ UNCHANGED <<score_table, scored_relics, vessel_tree, Utility>>

\* the scheduler runs the other call: the BuildFinder (score_table,
\* scored_relics) and the tree are the ones both calls read
Switch ==
    /\ parked # NoSearch
    /\ scorer' = parked.scorer
    /\ top' = parked.top
    /\ used' = parked.used
    /\ chosen_indices' = parked.chosen_indices
    /\ stack' = parked.stack
    /\ pc' = parked.pc
    /\ result' = parked.result
    /\ minimum' = parked.minimum
    /\ parked' = Locals
    /\ hist' = [hist EXCEPT !.submitted = parked.submitted,
                            !.visited = parked.visited,
                            !.running = 3 - hist.running]
    /\ UNCHANGED <<score_table, scored_relics, vessel_tree, Utility>>

NextTwo ==
    \/ NextSearch
    \/ Switch

SpecTwo == InitTwo /\ [][NextTwo]_vars

-----------------------------------------------------------------------------
(* utility.py json5_load: a text is the sequence of its characters *)

Quote == "\""
Backslash == "\\"
Apostrophe == "'"

\* no BuildFinder, scorer, heap or search in play
BuildFinderIdle ==
    /\ score_table = <<>>
    /\ scorer = NewScorer
    /\ top = NewHeap(0)
    /\ scored_relics = <<>>
    /\ vessel_tree = EmptyTree
    /\ minimum = 0
    /\ used = <<>>
    /\ chosen_indices = <<>>
    /\ stack = <<>>
    /\ parked = NoSearch

BuildFinderVars ==
    <<score_table, scorer, top, scored_relics, vessel_tree, minimum, used,
      chosen_indices, stack, parked>>

At(text, i, c) == i <= Len(text) /\ text[i] = c

\* (?:\\.|[^"\\])*" from place j on: the place of the closing quote, 0 when
\* the pattern does not match (DOTALL: the escaped character is any)
RECURSIVE string_end(_, _, _)
string_end(text, j, quote) ==
    IF j > Len(text) THEN 0
    ELSE IF text[j] = Backslash
    THEN (IF j + 1 <= Len(text) THEN string_end(text, j + 2, quote) ELSE 0)
    ELSE IF text[j] = quote THEN j
    ELSE string_end(text, j + 1, quote)

\* [ \t]*: the first place from i on that holds neither
RECURSIVE skip_blanks(_, _)
skip_blanks(text, i) ==
    IF i <= Len(text) /\ text[i] \in {" ", "\t"} THEN skip_blanks(text, i + 1)
    ELSE i

\* //[^\r\n]* with the second slash at place j: the last place matched
RECURSIVE line_end(_, _)
line_end(text, j) ==
    IF j + 1 <= Len(text) /\ text[j + 1] \notin {"\r", "\n"}
    THEN line_end(text, j + 1)
    ELSE j

\* .*?\*/ from place k on: the place of the closing slash, 0 when none
RECURSIVE block_end(_, _)
block_end(text, k) ==
    IF k + 1 > Len(text) THEN 0
    ELSE IF text[k] = "*" /\ text[k + 1] = "/" THEN k + 1
    ELSE block_end(text, k + 1)

\* _JSON5_COMMENT_PATTERN tried at place i, its alternatives in order: the
\* last place of the match (0: no match) and whether a group captured it
json5_comment_match(text, i) ==
    LET j == skip_blanks(text, i)
    IN  IF text[i] = Quote /\ string_end(text, i + 1, Quote) # 0
        THEN [last |-> string_end(text, i + 1, Quote), group |-> TRUE]
        ELSE IF text[i] = Apostrophe /\ string_end(text, i + 1, Apostrophe) # 0
        THEN [last |-> string_end(text, i + 1, Apostrophe), group |-> TRUE]
        ELSE IF At(text, j, "/") /\ At(text, j + 1, "/")
        THEN [last |-> line_end(text, j + 1), group |-> FALSE]
        ELSE IF At(text, j, "/") /\ At(text, j + 1, "*")
                /\ block_end(text, j + 2) # 0
        THEN [last |-> block_end(text, j + 2), group |-> FALSE]
        ELSE [last |-> 0, group |-> FALSE]

\* _JSON5_COMMENT_PATTERN.sub(comment_replacer, text), from place i on
RECURSIVE strip_comments(_, _)
strip_comments(text, i) ==
    IF i > Len(text) THEN <<>>
    ELSE LET m == json5_comment_match(text, i)
         IN  IF m.last = 0
             THEN <<text[i]>> \o strip_comments(text, i + 1)
             ELSE (IF m.group THEN SubSeq(text, i, m.last) ELSE <<>>)
                      \o strip_comments(text, m.last + 1)

\* \s*: the first place from i on that holds no white space
RECURSIVE skip_space(_, _)
skip_space(text, i) ==
    IF i <= Len(text) /\ text[i] \in {" ", "\t", "\n", "\r"}
    THEN skip_space(text, i + 1)
    ELSE i

\* ,(?=\s*[\]}]) matches at place i
is_trailing_comma(text, i) ==
    /\ text[i] = ","
    /\ LET j == skip_space(text, i + 1)
       IN  j <= Len(text) /\ text[j] \in {"]", "}"}

\* re.sub(r",(?=\s*[\]}])", "", text)
strip_trailing_commas(text) ==
    LET kept == SelectSeq([i \in 1..Len(text) |-> i],
                          LAMBDA i : ~is_trailing_comma(text, i))
    IN  [k \in 1..Len(kept) |-> text[kept[k]]]

JSONDecodeError == [kind |-> "JSONDecodeError", value |-> <<>>]

\* json.loads, the string scanner: the characters of the literal opened
\* before place j, and the place after its closing quote (0: malformed)
RECURSIVE json_scanstring(_, _, _)
json_scanstring(text, j, chars) ==
    IF j > Len(text) THEN [chars |-> chars, next |-> 0]
    ELSE IF text[j] = Quote THEN [chars |-> chars, next |-> j + 1]
    ELSE IF text[j] = Backslash
    THEN (IF j + 1 <= Len(text) /\ text[j + 1] \in {Quote, Backslash, "/"}
          THEN json_scanstring(text, j + 2, Append(chars, text[j + 1]))
          ELSE IF j + 1 <= Len(text) /\ text[j + 1] = "n"
          THEN json_scanstring(text, j + 2, Append(chars, "\n"))
          ELSE [chars |-> chars, next |-> 0])
    ELSE IF text[j] \in {"\n", "\r", "\t"} THEN [chars |-> chars, next |-> 0]
    ELSE json_scanstring(text, j + 1, Append(chars, text[j]))

\* json.loads, the scanner: the tokens of the text from place i on
RECURSIVE json_tokens(_, _)
json_tokens(text, i) ==
    IF i > Len(text) THEN <<>>
    ELSE IF text[i] \in {" ", "\t", "\n", "\r"} THEN json_tokens(text, i + 1)
    ELSE IF text[i] = Quote
    THEN LET lit == json_scanstring(text, i + 1, <<>>)
         IN  IF lit.next = 0 THEN <<JSONDecodeError>>
             ELSE <<[kind |-> "str", value |-> lit.chars]>>
                      \o json_tokens(text, lit.next)
    ELSE IF text[i] \in {"[", "]", "{", "}", ",", ":"}
    THEN <<[kind |-> text[i], value |-> <<>>]>> \o json_tokens(text, i + 1)
    ELSE IF text[i] \in {"0", "1", "2"}
    THEN <<[kind |-> "int", value |-> <<text[i]>>]>> \o json_tokens(text, i + 1)
    ELSE <<JSONDecodeError>>

IsScalar(token) == token.kind \in {"str", "int"}

\* the elements of a list: value ("," value)*, <<JSONDecodeError>> otherwise
RECURSIVE json_elements(_)
json_elements(tokens) ==
    IF Len(tokens) = 1 /\ IsScalar(tokens[1]) THEN tokens
    ELSE IF Len(tokens) >= 3 /\ IsScalar(tokens[1]) /\ tokens[2].kind = ","
    THEN LET rest == json_elements(SubSeq(tokens, 3, Len(tokens)))
         IN  IF rest = <<JSONDecodeError>> THEN rest ELSE <<tokens[1]>> \o rest
    ELSE <<JSONDecodeError>>

\* the items of a dict: string ":" value ("," ...)*, the later of two equal
\* keys winning; JSONDecodeError otherwise
RECURSIVE json_members(_)
json_members(tokens) ==
    IF Len(tokens) >= 3 /\ tokens[1].kind = "str" /\ tokens[2].kind = ":"
       /\ IsScalar(tokens[3])
    THEN IF Len(tokens) = 3 THEN (tokens[1].value :> tokens[3])
         ELSE IF tokens[4].kind = ","
         THEN LET rest == json_members(SubSeq(tokens, 5, Len(tokens)))
              IN  IF rest = JSONDecodeError THEN rest
                  ELSE rest @@ (tokens[1].value :> tokens[3])
         ELSE JSONDecodeError
    ELSE JSONDecodeError

\* json.loads on a scalar, a list of scalars or a dict of scalars
json_loads(text) ==
    LET tokens == json_tokens(text, 1)
        n == Len(tokens)
        inner == SubSeq(tokens, 2, n - 1)
    IN  IF n = 0 \/ JSONDecodeError \in Range(tokens) THEN JSONDecodeError
        ELSE IF n = 1
        THEN (IF IsScalar(tokens[1]) THEN tokens[1] ELSE JSONDecodeError)
        ELSE IF tokens[1].kind = "[" /\ tokens[n].kind = "]"
        THEN (IF inner = <<>> THEN [kind |-> "list", value |-> <<>>]
              ELSE IF json_elements(inner) = <<JSONDecodeError>>
              THEN JSONDecodeError
              ELSE [kind |-> "list", value |-> json_elements(inner)])
        ELSE IF tokens[1].kind = "{" /\ tokens[n].kind = "}"
        THEN (IF inner = <<>> THEN [kind |-> "dict", value |-> <<>>]
              ELSE IF json_members(inner) = JSONDecodeError
              THEN JSONDecodeError
              ELSE [kind |-> "dict", value |-> json_members(inner)])
        ELSE JSONDecodeError

\* json5_load(source) for a source that is a str
json5_load(text) == json_loads(strip_trailing_commas(strip_comments(text, 1)))

\* what stands between the quotes of a string literal of the texts loaded
Json5Bodies ==
    { <<"a">>,
      <<"/", "/", "a">>,
      <<"/", "*", "a", "*", "/">>,
      <<Backslash, Quote>>,
      <<"a", Backslash, Backslash>>,
      <<Apostrophe>>,
      <<",", "]">>,
      <<"a", ",", " ", "}">> }

\* what may stand between two tokens: nothing, a blank, a line comment (one
\* with a quote in it), a block comment (one over two lines)
Json5Gaps ==
    { <<>>,
      <<" ">>,
      <<" ", "/", "/", "a", Quote, "\n">>,
      <<"/", "*", "a", "\n", "*", "/">>,
      <<" ", "/", "*", ",", "]", "*", "/">> }

\* a list [<string>, 1] or a dict {"k": <string>}, with gaps and, when
\* trailing holds, a comma before the closing bracket
Json5Text(shape, body, gap1, gap2, gap3, trailing) ==
    LET literal == <<Quote>> \o body \o <<Quote>>
        comma == IF trailing THEN <<",">> ELSE <<>>
    IN  IF shape = "list"
        THEN <<"[">> \o literal \o gap1 \o <<",">> \o gap2 \o <<"1">>
                 \o comma \o gap3 \o <<"]">>
        ELSE <<"{">> \o gap1 \o <<Quote, "k", Quote, ":">> \o gap2 \o literal
                 \o comma \o gap3 \o <<"}">>

InitJson5 ==
    \E shape \in {"list", "dict"}, body \in Json5Bodies,
       gap1 \in Json5Gaps, gap2 \in Json5Gaps, gap3 \in Json5Gaps,
       trailing \in BOOLEAN :
        /\ call = [function |-> "json5_load",
                   source |-> Json5Text(shape, body, gap1, gap2, gap3, trailing)]
        /\ pc = "call"
        /\ result = <<>>
        /\ converter_cache = BuiltinConverters
        /\ converter_lock = NewLock
        /\ threads = <<>>
        /\ BuildFinderIdle
        /\ hist = [plain |-> Json5Text(shape, body, <<>>, <<>>, <<>>, FALSE),
                   body |-> body,
                   decorated |-> <<gap1, gap2, gap3>> # <<<<>>, <<>>, <<>>>>
                                     \/ trailing]

\* json5_load(call.source): the value returned, or JSONDecodeError raised
Json5Load ==
    /\ pc = "call" /\ call.function = "json5_load"
    /\ LET value == json5_load(call.source)
       IN  IF value = JSONDecodeError
           THEN pc' = "raised" /\ result' = value
           ELSE pc' = "returned" /\ result' = value
    /\ UNCHANGED <<BuildFinderVars, Utility, hist>>

NextJson5 == Json5Load

SpecJson5 == InitJson5 /\ [][NextJson5]_vars

-----------------------------------------------------------------------------
(* utility.py csv_load without a dataclass or an init_function (rows are   *)
(* dicts): a generator function, its body run by the caller's next().      *)
(* The source is the list of lines as csv.reader splits them into cells,   *)
(* kwargs the keyword arguments of the call as a mapping                   *)

\* the keyword parameters in the signature of csv_load
CsvParameters ==
    {"delimiter", "column_names", "dataclass", "field_metadata_key",
     "field_to_column_name", "init_function", "allow_column_subset"}

\* a keyword argument, or the default of its parameter
Argument(kwargs, name, default) ==
    IF name \in DOMAIN kwargs THEN kwargs[name] ELSE default

\* {name: i for i, name in enumerate(column_names)}: the last place of a
\* name (places are 1-based here)
column_indices(column_names) ==
    [name \in Range(column_names) |->
        CHOOSE i \in 1..Len(column_names) :
            /\ column_names[i] = name
            /\ \A j \in 1..Len(column_names) : column_names[j] = name => j <= i]

\* lines 299-302: the default mapping, every column under its own name
default_field_to_column_name(column_names) ==
    [name \in Range(column_names) |-> name]

\* lines 304-311 for str fields: field -> place of its column, for the
\* fields whose column the CSV has
field_to_index(field_to_column_name, column_names) ==
    [field \in {f \in DOMAIN field_to_column_name :
                   field_to_column_name[f] \in Range(column_names)} |->
        column_indices(column_names)[field_to_column_name[field]]]

\* the test of line 312 made against the fields read instead
column_subset_of_read(field_to_column_name, column_names) ==
    Cardinality(DOMAIN field_to_column_name)
        < Cardinality(DOMAIN field_to_index(field_to_column_name, column_names))

\* line 312: len(field_to_column_name) < len(column_names)
column_subset(field_to_column_name, column_names) ==
    Cardinality(DOMAIN field_to_column_name) < Len(column_names)

\* lines 321-329 with init_function = dict and str converters: the dict
\* made of one row
csv_row(fields, row) == [name \in DOMAIN fields |-> row[fields[name]]]

CsvHeaders == {<<"a", "b">>, <<"a", "b", "c">>}

MaxLines == 2

\* the data line k of a CSV with the header given: one cell a column
CsvLine(header, k) == [c \in 1..Len(header) |-> header[c] \o ToString(k)]

CsvMappings ==
    { ("x" :> "a"),
      ("x" :> "b" @@ "y" :> "a"),
      ("x" :> "a" @@ "z" :> "missing") }

\* the keyword arguments of the calls made; init_arguments is what
\* tests/test_csv_load.py passes
CsvKwargs ==
    { m @@ a @@ i :
        m \in {<<>>} \cup {("field_to_column_name" :> ftc) : ftc \in CsvMappings},
        a \in {<<>>} \cup {("allow_column_subset" :> b) : b \in BOOLEAN},
        i \in {<<>>, ("init_arguments" :> ("extra_argument" :> "extra"))} }

InitCsv ==
    \E header \in CsvHeaders, n \in 0..MaxLines, kwargs \in CsvKwargs :
        /\ call = [function |-> "csv_load",
                   source |-> <<header>> \o [k \in 1..n |-> CsvLine(header, k)],
                   kwargs |-> kwargs, line |-> 0, raised |-> ""]
        /\ pc = "call"
        /\ result = <<>>
        /\ converter_cache = BuiltinConverters
        /\ converter_lock = NewLock
        /\ threads = <<>>
        /\ BuildFinderIdle
        /\ hist = [nexts |-> 0]

\* csv_load(source, **kwargs): the arguments are bound to the signature
\* (a keyword it does not have: TypeError) and a generator is returned
CsvLoad ==
    /\ pc = "call" /\ call.function = "csv_load"
    /\ IF DOMAIN call.kwargs \subseteq CsvParameters
       THEN pc' = "generator" /\ call' = call
       ELSE pc' = "raised" /\ call' = [call EXCEPT !.raised = "TypeError"]
    /\ UNCHANGED <<BuildFinderVars, result, converter_cache, converter_lock,
                   threads, hist>>

\* next(generator): the first runs the body down to the first yield
\* (lines 267-320), the later ones take the next row; _build_converter(str)
\* finds str in the cache and writes nothing
CsvNext ==
    /\ pc \in {"generator", "yielding"} /\ call.function = "csv_load"
    /\ LET column_names == call.source[1]
           field_to_column_name ==
               Argument(call.kwargs, "field_to_column_name",
                        default_field_to_column_name(column_names))
           allow_column_subset ==
               Argument(call.kwargs, "allow_column_subset", TRUE)
           fields == field_to_index(field_to_column_name, column_names)
           line == IF pc = "generator" THEN 1 ELSE call.line + 1
       IN  IF /\ pc = "generator"
              /\ column_subset(field_to_column_name, column_names)
              /\ ~allow_column_subset
           THEN /\ pc' = "raised"
                /\ call' = [call EXCEPT !.raised = "ColumnSubsetError"]
                /\ result' = result
           ELSE IF line + 1 > Len(call.source)
           THEN /\ pc' = "exhausted"
                /\ UNCHANGED <<call, result>>
           ELSE /\ pc' = "yielding"
                /\ call' = [call EXCEPT !.line = line]
                /\ result' = Append(result, csv_row(fields, call.source[line + 1]))
    /\ hist' = [hist EXCEPT !.nexts = hist.nexts + 1]
    /\ UNCHANGED <<BuildFinderVars, converter_cache, converter_lock, threads>>

NextCsv ==
    \/ CsvLoad
    \/ CsvNext

SpecCsv == InitCsv /\ [][NextCsv]_vars

-----------------------------------------------------------------------------
(* utility.py register_converter and _build_converter called by threads;   *)
(* the kind of the lock tells which of the two utility.py is running: with *)
(* the Lock _build_converter walks the leaf types and writes the cache     *)
(* itself, with the RLock it calls register_converter while holding it     *)

MaxThreads == 2

\* callable(getattr(typ, "from_string", None)), for the types of
\* tests/test_csv_load.py
has_from_string(typ) == typ \in {"FromMethod", "FromOther"}

\* def converter(value): return method(value), a new function each call:
\* the function made for typ by the call of thread t, which closes over the
\* variable `method` of that call
from_string_converter(typ, t) == <<"from_string", typ, t>>

\* what a call of a converter that is no builtin calls: for the closure,
\* whatever `method` of the call that made it is bound to now (the
\* from_string of a type, or "None"); for a registered converter, itself
method_called(converter, ths) ==
    IF converter[1] = "from_string" THEN <<"method", ths[converter[3]].method>>
    ELSE converter

\* method := getattr(leaf_type, "from_string", None)
bind_method(th, typ) ==
    [th EXCEPT !.method = IF has_from_string(typ) THEN typ ELSE "None"]

RegisteredTypes == {"str", "FromRegistered", "FromMethod"}

\* the types _build_converter is called with, as iterate_leaf_types yields
\* them
BuiltTypes(kind) ==
    IF kind = "Lock"
    THEN {<<"FromMethod">>, <<"FromRegistered">>,
          <<"FromRegistered", "FromMethod">>,
          <<"FromMethod", "FromRegistered">>, <<"FromMethod", "FromOther">>,
          <<"FromMethod", "str">>}
    ELSE {<<"FromMethod">>, <<"FromRegistered">>}

\* a call a thread makes, about to start
ConverterCalls(kind, t) ==
    {[op |-> "register_converter", types |-> <<typ>>,
      converter |-> <<"converter", t>>, pc |-> "acquire", i |-> 1,
      inner |-> FALSE, converters |-> <<>>, outcome |-> "", wrote |-> {},
      method |-> "unbound"] :
        typ \in RegisteredTypes}
    \cup
    {[op |-> "_build_converter", types |-> types,
      converter |-> <<"none", t>>, pc |-> "acquire", i |-> 1,
      inner |-> FALSE, converters |-> <<>>, outcome |-> "", wrote |-> {},
      method |-> "unbound"] :
        types \in BuiltTypes(kind)}

InitConverters ==
    \E lock \in {NewLock, NewRLock}, n \in 1..MaxThreads :
        /\ converter_lock = lock
        /\ converter_cache = BuiltinConverters
        /\ threads \in {th \in [1..n -> UNION {ConverterCalls(lock.kind, t) :
                                                  t \in 1..n}] :
                           \A t \in 1..n : th[t] \in ConverterCalls(lock.kind, t)}
        /\ call = NoCall
        /\ pc = "threads"
        /\ result = <<>>
        /\ BuildFinderIdle
        /\ hist = <<>>

ConverterFrame == UNCHANGED <<BuildFinderVars, call, pc, result, hist>>

\* acquire() with no test of who holds the lock
can_acquire_always(lock, t) == TRUE

\* acquire() returns: the lock is free, or it is an RLock this thread holds
can_acquire(lock, t) ==
    lock.owner = 0 \/ (lock.kind = "RLock" /\ lock.owner = t)

\* with _CONVERTER_LOCK: entered
Acquire(t) ==
    /\ t \in 1..Len(threads)
    /\ threads[t].pc = "acquire"
    /\ can_acquire(converter_lock, t)
    /\ converter_lock' = [converter_lock EXCEPT !.owner = t,
                                                !.count = converter_lock.count + 1]
    /\ threads' = [threads EXCEPT ![t].pc =
                      IF threads[t].op = "register_converter" \/ threads[t].inner
                      THEN "register_check" ELSE "build_get"]
    /\ UNCHANGED converter_cache
    /\ ConverterFrame

\* register_converter: if typ in _CONVERTER_CACHE: raise KeyError
RegisterCheck(t) ==
    /\ t \in 1..Len(threads)
    /\ threads[t].pc = "register_check"
    /\ LET typ == threads[t].types[threads[t].i]
       IN  threads' = IF typ \in DOMAIN converter_cache
                      THEN [threads EXCEPT ![t].pc = "release",
                                           ![t].outcome = "KeyError"]
                      ELSE [threads EXCEPT ![t].pc = "register_write"]
    /\ UNCHANGED <<converter_cache, converter_lock>>
    /\ ConverterFrame

\* register_converter: _CONVERTER_CACHE[typ] = converter
RegisterWrite(t) ==
    /\ t \in 1..Len(threads)
    /\ threads[t].pc = "register_write"
    /\ LET th == threads[t]
           typ == th.types[th.i]
           converter == IF th.inner THEN from_string_converter(typ, t)
                        ELSE th.converter
       IN  /\ converter_cache' =
                  [k \in DOMAIN converter_cache \cup {typ} |->
                      IF k = typ THEN converter ELSE converter_cache[k]]
           /\ threads' = [threads EXCEPT
                 ![t].pc = "release",
                 ![t].wrote = th.wrote \cup {typ},
                 ![t].converters = IF th.inner THEN <<converter>>
                                   ELSE th.converters,
                 ![t].outcome = "returned"]
    /\ UNCHANGED converter_lock
    /\ ConverterFrame

\* _build_converter: _CONVERTER_CACHE.get(...) for the next leaf type, and
\* what follows from what it finds
BuildGet(t) ==
    /\ t \in 1..Len(threads)
    /\ threads[t].pc = "build_get"
    /\ LET typ == threads[t].types[threads[t].i]
           cached == typ \in DOMAIN converter_cache
           th == IF cached THEN threads[t] ELSE bind_method(threads[t], typ)
           last == th.i = Len(th.types)
           after(converters) ==
               IF last
               THEN [th EXCEPT !.pc = "release", !.converters = converters,
                               !.outcome = IF converters = <<>> THEN "TypeError"
                                           ELSE "returned"]
               ELSE [th EXCEPT !.pc = "build_get", !.i = th.i + 1,
                               !.converters = converters]
       IN  threads' =
             IF converter_lock.kind = "RLock"
             THEN IF cached
                  THEN [threads EXCEPT ![t] =
                           [th EXCEPT !.pc = "release", !.outcome = "returned",
                                      !.converters = <<converter_cache[typ]>>]]
                  ELSE IF has_from_string(typ)
                  THEN [threads EXCEPT ![t] =
                           [th EXCEPT !.pc = "acquire", !.inner = TRUE]]
                  ELSE [threads EXCEPT ![t] =
                           [th EXCEPT !.pc = "release", !.outcome = "TypeError"]]
             ELSE IF cached
                  THEN [threads EXCEPT ![t] =
                           after(Append(th.converters, converter_cache[typ]))]
                  ELSE IF has_from_string(typ)
                  THEN [threads EXCEPT ![t] = [th EXCEPT !.pc = "build_write"]]
                  ELSE [threads EXCEPT ![t] = after(th.converters)]
    /\ UNCHANGED <<converter_cache, converter_lock>>
    /\ ConverterFrame

\* _build_converter under the Lock: _CONVERTER_CACHE[leaf_type] = converter
BuildWrite(t) ==
    /\ t \in 1..Len(threads)
    /\ threads[t].pc = "build_write"
    /\ LET th == threads[t]
           typ == th.types[th.i]
           converter == from_string_converter(typ, t)
           last == th.i = Len(th.types)
       IN  /\ converter_cache' =
                  [k \in DOMAIN converter_cache \cup {typ} |->
                      IF k = typ THEN converter ELSE converter_cache[k]]
           /\ threads' = [threads EXCEPT
                 ![t].pc = IF last THEN "release" ELSE "build_get",
                 ![t].i = IF last THEN th.i ELSE th.i + 1,
                 ![t].wrote = th.wrote \cup {typ},
                 ![t].converters = Append(th.converters, converter),
                 ![t].outcome = IF last THEN "returned" ELSE th.outcome]
    /\ UNCHANGED converter_lock
    /\ ConverterFrame

\* the with block is left, by return or by the exception: one level of the
\* lock is given back, and the call is over when the last is
Release(t) ==
    /\ t \in 1..Len(threads)
    /\ threads[t].pc = "release"
    /\ converter_lock' =
           IF converter_lock.count > 1
           THEN [converter_lock EXCEPT !.count = converter_lock.count - 1]
           ELSE [converter_lock EXCEPT !.count = 0, !.owner = 0]
    /\ threads' = [threads EXCEPT
          ![t].pc = IF converter_lock.count > 1 THEN "release" ELSE "done",
          ![t].inner = FALSE]
    /\ UNCHANGED converter_cache
    /\ ConverterFrame

NextConverters ==
    \E t \in 1..MaxThreads :
        \/ Acquire(t)
        \/ RegisterCheck(t)
        \/ RegisterWrite(t)
        \/ BuildGet(t)
        \/ BuildWrite(t)
        \/ Release(t)

SpecConverters == InitConverters /\ [][NextConverters]_vars

-----------------------------------------------------------------------------
(* Claims about the scorer, checked under SpecScorer *)

\* C1: after pushes onto a fresh scorer, with no pop, current_score is the
\* score get_scored_effects gives for all the pushed effects in push order
C1_ScorerEquivalence ==
    (pc = "scorer" /\ ~hist.popped) =>
        scorer.current_score = get_scored_effects(hist.pushed, score_table).score

C4_ScoreMatchesActive ==
    pc = "scorer" =>
        scorer.current_score =
            get_scored_effects(active_effects(scorer), score_table).score

\* the lookup order as the claim states it
C5_Lookup(effect, table) ==
    IF qualified_name_lower(effect) \in DOMAIN table
    THEN table[qualified_name_lower(effect)]
    ELSE IF wildcard_name_lower(effect) \in DOMAIN table
    THEN table[wildcard_name_lower(effect)]
    ELSE IF Lower(effect.name) \in DOMAIN table
    THEN table[Lower(effect.name)] * (effect.level + 1)
    ELSE 0

RECURSIVE C5_Sum(_, _)
C5_Sum(effects, table) ==
    IF effects = <<>> THEN 0
    ELSE C5_Lookup(Head(effects), table) + C5_Sum(Tail(effects), table)

\* C5: what push_relic adds for the effects it made active, and what
\* get_scored_effects scores for one effect, follow the lookup order
\* "name +N", "name +*", bare name times (level + 1), 0
C5_LookupOrder ==
    (pc = "scorer" /\ hist.last.op = "push_relic") =>
        /\ hist.last.delta =
               C5_Sum(SubSeq(active_effects(scorer),
                             Len(hist.last.before.active_effects_stack) + 1,
                             Len(active_effects(scorer))), score_table)
        /\ \A i \in 1..Len(hist.last.relic.effects_and_curses) :
               LET e == hist.last.relic.effects_and_curses[i]
               IN  get_scored_effects(<<e>>, score_table).score
                       = C5_Lookup(e, score_table)

\* the number of places of a sequence that hold x
CountOf(seq, x) == Cardinality({i \in 1..Len(seq) : seq[i] = x})

\* what one instance scores on its own, in each of the two scorers
C13_Alone(e) == get_scored_effects(<<e>>, score_table).score

C13_AlonePushed(e) ==
    push_relic(NewScorer, Relic(Red, <<e>>), score_table).delta

RECURSIVE C13_Sum(_)
C13_Sum(effects) ==
    IF effects = <<>> THEN 0
    ELSE C13_Alone(Head(effects)) + C13_Sum(Tail(effects))

RECURSIVE C13_SumPushed(_)
C13_SumPushed(effects) ==
    IF effects = <<>> THEN 0
    ELSE C13_AlonePushed(Head(effects)) + C13_SumPushed(Tail(effects))

\* C13: in both scorers every instance of a stackable effect is active and
\* adds its score, whatever its level, and a non-stackable effect given
\* again with the same name and level is active once at most and adds its
\* score once (hist.pushed are the effects pushed and not popped, in order)
C13_Stacking ==
    pc = "scorer" =>
        LET given == hist.pushed
            alone == get_scored_effects(given, score_table)
            pushed == active_effects(scorer)
        IN  /\ \A i \in 1..Len(given) :
                   LET e == given[i]
                   IN  IF e.stackable
                       THEN /\ CountOf(alone.active_effects, e) = CountOf(given, e)
                            /\ CountOf(pushed, e) = CountOf(given, e)
                       ELSE /\ CountOf(alone.active_effects, e) <= 1
                            /\ CountOf(pushed, e) <= 1
                            /\ e.exclusive = "" =>
                                   /\ CountOf(alone.active_effects, e) = 1
                                   /\ CountOf(pushed, e) = 1
            /\ alone.score = C13_Sum(alone.active_effects)
            /\ scorer.current_score = C13_SumPushed(pushed)

\* Vigor at levels 0 and 1 and Stamina Recovery +0 twice were pushed, each
\* with a score of its own
C13_Witness ==
    /\ pc = "scorer"
    /\ get_effect(Vigor, 0) \in Range(hist.pushed)
    /\ get_effect(Vigor, 1) \in Range(hist.pushed)
    /\ CountOf(hist.pushed, get_effect(Stamina, 0)) = 2
    /\ \A e \in Range(hist.pushed) : C13_Alone(e) # 0 /\ C13_AlonePushed(e) # 0
    /\ Len(active_effects(scorer)) = 3

\* the effects of a sequence that bear the tag, in order
C14_Bearing(effects, tag) == SelectSeq(effects, LAMBDA e : e.exclusive = tag)

\* C14: in get_scored_effects' result and in the scorer, after any pushes
\* and pops, the active effects that bear a tag are exactly one: the first
\* effect given that bears the tag (hist.pushed are the effects pushed and
\* not popped, in order)
C14_OnePerTag ==
    pc = "scorer" =>
        LET given == hist.pushed
            alone == get_scored_effects(given, score_table).active_effects
            pushed == active_effects(scorer)
            tags == {e.exclusive : e \in Range(given) \cup Range(alone)
                                            \cup Range(pushed)} \ {""}
        IN  \A tag \in tags :
                /\ C14_Bearing(given, tag) # <<>>
                /\ C14_Bearing(alone, tag) = <<Head(C14_Bearing(given, tag))>>
                /\ C14_Bearing(pushed, tag) = <<Head(C14_Bearing(given, tag))>>

\* after a pop, two effects of different names that bear the same tag are
\* given, one of them by the last push, and the first is the active one
C14_Witness ==
    /\ pc = "scorer"
    /\ hist.popped
    /\ hist.last.op = "push_relic"
    /\ Len(C14_Bearing(hist.pushed, "imbue")) >= 2
    /\ C14_Bearing(hist.pushed, "imbue")[1].name
           # C14_Bearing(hist.pushed, "imbue")[2].name
    /\ C14_Bearing(hist.last.relic.effects_and_curses, "imbue") # <<>>
    /\ C14_Bearing(active_effects(scorer), "imbue")
           = <<C14_Bearing(hist.pushed, "imbue")[1]>>

\* the table has no key for the name: not "name", "name +*" or "name +N"
C15_Absent(e, table) ==
    DOMAIN table \cap ({Lower(e.name), Lower(e.name) \o " +*"}
                       \cup {Lower(e.name) \o " +" \o ToString(n) : n \in 0..1})
        = {}

\* the effect is not a non-stackable repeat of an effect given before it
\* and its tag, if it has one, is borne by no effect active before it
C15_Unblocked(e, given, active) ==
    /\ e.stackable \/ \A j \in 1..Len(given) :
                           <<given[j].name, given[j].level>> # <<e.name, e.level>>
    /\ e.exclusive = "" \/ \A a \in Range(active) : a.exclusive # e.exclusive

\* an effect that has the tag of e, or is non-stackable with its name and level
C15_Rivals(e) ==
    {e2 \in {get_effect(name, level) : name \in EffectNames, level \in 0..1} :
        \/ e.exclusive # "" /\ e2.exclusive = e.exclusive
        \/ ~e.stackable /\ e2 = e}

\* C15: an unblocked effect for whose name the table has no key adds 0, is
\* appended to active_effects, and takes its tag and its (name, level) key,
\* so that a later effect with the tag or the key is blocked; in
\* get_scored_effects and in push_relic, effect by effect of the last push
C15_AbsentStillActive ==
    (pc = "scorer" /\ hist.last.op = "push_relic") =>
        LET relic == hist.last.relic
            effects == relic.effects_and_curses
            base == SubSeq(hist.pushed, 1, Len(hist.pushed) - Len(effects))
        IN  \A k \in 1..Len(effects) :
                LET e == effects[k]
                    givenB == base \o SubSeq(effects, 1, k - 1)
                    givenA == Append(givenB, e)
                    aloneB == get_scored_effects(givenB, score_table)
                    aloneA == get_scored_effects(givenA, score_table)
                    incB == push_relic(hist.last.before,
                                       Relic(relic.color, SubSeq(effects, 1, k - 1)),
                                       score_table).sc
                    incA == IF k = Len(effects) THEN scorer
                            ELSE push_relic(hist.last.before,
                                            Relic(relic.color, SubSeq(effects, 1, k)),
                                            score_table).sc
                IN  C15_Absent(e, score_table) =>
                      /\ C15_Unblocked(e, givenB, aloneB.active_effects) =>
                            /\ aloneA.score = aloneB.score
                            /\ aloneA.active_effects
                                   = Append(aloneB.active_effects, e)
                            /\ \A e2 \in C15_Rivals(e) :
                                   get_scored_effects(Append(givenA, e2),
                                                      score_table) = aloneA
                      /\ C15_Unblocked(e, givenB, active_effects(incB)) =>
                            /\ incA.current_score = incB.current_score
                            /\ active_effects(incA)
                                   = Append(active_effects(incB), e)
                            /\ e.exclusive # "" =>
                                   e.exclusive \in incA.exclusive_taken
                            /\ ~e.stackable =>
                                   <<e.name, e.level>> \in incA.seen_keys
                            /\ \A e2 \in C15_Rivals(e) :
                                   LET r == push_relic(incA,
                                                       Relic(relic.color, <<e2>>),
                                                       score_table)
                                   IN  r.sc = incA /\ r.delta = 0

\* the last push gave an unblocked tag-bearing effect the table has no key
\* for, onto a scorer that held effects and a score: it is active, and the
\* push added nothing to the score
C15_Witness ==
    /\ pc = "scorer"
    /\ hist.last.op = "push_relic"
    /\ Len(hist.last.relic.effects_and_curses) = 1
    /\ C15_Absent(hist.last.relic.effects_and_curses[1], score_table)
    /\ hist.last.relic.effects_and_curses[1].exclusive # ""
    /\ hist.last.before.current_score > 0
    /\ active_effects(scorer)
           = Append(active_effects(hist.last.before),
                    hist.last.relic.effects_and_curses[1])
    /\ hist.last.delta = 0

\* an effect push_relic skips: a non-stackable repeat of a seen (name,
\* level) key, or the bearer of a tag that is taken
C29_Skipped(seen, taken, e) ==
    \/ ~e.stackable /\ <<e.name, e.level>> \in seen
    \/ e.exclusive # "" /\ e.exclusive \in taken

\* what the scorer holds after the effects given, the skipped ones leaving
\* everything as it is; logged counts the entries the others add to the log
RECURSIVE C29_After(_, _)
C29_After(held, effects) ==
    IF effects = <<>> THEN held
    ELSE LET e == Head(effects)
             s == C13_AlonePushed(e)
         IN  IF C29_Skipped(held.seen, held.taken, e)
             THEN C29_After(held, Tail(effects))
             ELSE C29_After(
                    [score |-> held.score + s,
                     seen |-> IF e.stackable THEN held.seen
                              ELSE held.seen \cup {<<e.name, e.level>>},
                     taken |-> IF e.exclusive = "" THEN held.taken
                               ELSE held.taken \cup {e.exclusive},
                     active |-> Append(held.active, e),
                     logged |-> held.logged + 1
                                + (IF e.stackable THEN 0 ELSE 1)
                                + (IF e.exclusive = "" THEN 0 ELSE 1)
                                + (IF s = 0 THEN 0 ELSE 1)],
                    Tail(effects))

\* C29: after push_relic the score, the seen keys, the taken tags, the
\* active effects and the length of the change log are what the effects
\* that were not skipped make them, a skipped effect adding nothing to any
\* of them; a relic whose effects are all skipped returns 0 and leaves the
\* scorer, its log included, as it was
C29_SkippedLeavesNoTrace ==
    (pc = "scorer" /\ hist.last.op = "push_relic") =>
        LET before == hist.last.before
            after == C29_After([score |-> before.current_score,
                                seen |-> before.seen_keys,
                                taken |-> before.exclusive_taken,
                                active |-> active_effects(before),
                                logged |-> 0],
                               hist.last.relic.effects_and_curses)
        IN  /\ scorer.current_score = after.score
            /\ scorer.seen_keys = after.seen
            /\ scorer.exclusive_taken = after.taken
            /\ active_effects(scorer) = after.active
            /\ Len(scorer.change_log) = Len(before.change_log) + after.logged
            /\ SubSeq(scorer.change_log, 1, Len(before.change_log))
                   = before.change_log
            /\ hist.last.delta = after.score - before.current_score
            /\ after.active = active_effects(before) =>
                   /\ hist.last.delta = 0
                   /\ scorer = before

\* the last push gave a relic of two effects to a scorer that held a taken
\* tag: the first effect, a bearer of the tag, was skipped, the second made
\* active
C29_Witness ==
    /\ pc = "scorer"
    /\ hist.last.op = "push_relic"
    /\ Len(hist.last.relic.effects_and_curses) = 2
    /\ hist.last.relic.effects_and_curses[1].exclusive
           \in hist.last.before.exclusive_taken
    /\ hist.last.relic.effects_and_curses[1]
           \notin Range(active_effects(hist.last.before))
    /\ active_effects(scorer)
           = Append(active_effects(hist.last.before),
                    hist.last.relic.effects_and_curses[2])

-----------------------------------------------------------------------------
(* Claims about the build heap, checked under SpecHeap *)

\* the dedup signature as the claims state it
ClaimSignature(build) ==
    <<build.score, Range(build.relic_indexes), Range(build.active_effects)>>

HeldSignatures(t) == {ClaimSignature(t.heap[i]) : i \in 1..Len(t.heap)}

MinOf(a, b) == IF a <= b THEN a ELSE b

MinHeld(t) ==
    CHOOSE m \in {t.heap[i].score : i \in 1..Len(t.heap)} :
        \A i \in 1..Len(t.heap) : m <= t.heap[i].score

\* C6: the heap holds at most K entries and exactly min(K, number of
\* distinct signatures submitted)
C6_Boundedness ==
    pc = "heap" =>
        /\ Len(top.heap) <= top.max_size
        /\ Len(top.heap) = MinOf(top.max_size, Cardinality(hist.submitted))

\* more distinct signatures submitted than the heap can hold
C6_Witness ==
    /\ pc = "heap"
    /\ Cardinality(hist.submitted) > top.max_size
    /\ top.max_size >= 2

\* C7: a build the full heap turned away (not as a duplicate) or evicted
\* scores no more than the minimum held then and ever after; a new build
\* that scores more than the minimum held is taken
C7_Correctness ==
    pc = "heap" =>
        /\ \A s \in hist.dropped : s <= MinHeld(top)
        /\ (/\ hist.last.op = "consider"
            /\ Len(hist.last.before.heap) = top.max_size
            /\ ClaimSignature(hist.last.build)
                   \notin HeldSignatures(hist.last.before)
            /\ hist.last.build.score > MinHeld(hist.last.before))
           => hist.last.build \in Range(top.heap)

\* a drop followed by a later eviction that raised the minimum
C7_Witness ==
    /\ pc = "heap"
    /\ \E s \in hist.dropped : s < MinHeld(hist.last.before)
    /\ hist.last.op = "consider"
    /\ Len(hist.last.before.heap) = top.max_size
    /\ hist.last.build \in Range(top.heap)
    /\ hist.last.build \notin Range(hist.last.before.heap)
    /\ MinHeld(top) > MinHeld(hist.last.before)

\* the replacement the claim describes: the minimum-scoring entry leaves,
\* its signature with it, and the build comes in
Evicted(before, after, build) ==
    /\ before.heap[1].score = MinHeld(before)
    /\ Len(after.heap) = Len(before.heap)
    /\ Range(after.heap) = (Range(before.heap) \ {before.heap[1]}) \cup {build}
    /\ build \notin Range(before.heap)
    /\ after.signatures =
           (before.signatures \ {ClaimSignature(before.heap[1])})
               \cup {ClaimSignature(build)}

\* C8 as stated: on a full heap consider evicts and inserts exactly when
\* the build scores more than the minimum held
C8_EvictIffGreater ==
    (/\ pc = "heap"
     /\ hist.last.op = "consider"
     /\ Len(hist.last.before.heap) = top.max_size)
    => /\ Evicted(hist.last.before, top, hist.last.build)
              <=> hist.last.build.score > MinHeld(hist.last.before)
       /\ hist.last.build.score = MinHeld(hist.last.before)
              => top = hist.last.before

\* C8 amended: the same for a build whose signature is not already held
C8_EvictIffGreaterNew ==
    (/\ pc = "heap"
     /\ hist.last.op = "consider"
     /\ Len(hist.last.before.heap) = top.max_size
     /\ ClaimSignature(hist.last.build) \notin HeldSignatures(hist.last.before))
    => /\ Evicted(hist.last.before, top, hist.last.build)
              <=> hist.last.build.score > MinHeld(hist.last.before)
       /\ hist.last.build.score <= MinHeld(hist.last.before)
              => top = hist.last.before

\* a tie with the minimum on a full heap, and the heap as it was
C8_Witness ==
    /\ pc = "heap"
    /\ hist.last.op = "consider"
    /\ top.max_size >= 2
    /\ Len(hist.last.before.heap) = top.max_size
    /\ ClaimSignature(hist.last.build) \notin HeldSignatures(hist.last.before)
    /\ hist.last.build.score = MinHeld(hist.last.before)
    /\ top = hist.last.before

\* C9: a build whose signature is held changes nothing, so no signature is
\* ever held twice
C9_DedupStability ==
    pc = "heap" =>
        /\ (/\ hist.last.op = "consider"
            /\ ClaimSignature(hist.last.build)
                   \in HeldSignatures(hist.last.before))
           => top = hist.last.before
        /\ \A i, j \in 1..Len(top.heap) :
               ClaimSignature(top.heap[i]) = ClaimSignature(top.heap[j])
                   => i = j

\* a held signature submitted again by another build (other vessel, other
\* slot order) while the heap has room
C9_Witness ==
    /\ pc = "heap"
    /\ hist.last.op = "consider"
    /\ Len(hist.last.before.heap) = 1
    /\ top.max_size >= 2
    /\ hist.last.build \notin Range(hist.last.before.heap)
    /\ ClaimSignature(hist.last.build) \in HeldSignatures(hist.last.before)
    /\ Len(top.heap) = 1

\* C18: results_desc returns every held build exactly once, in
\* non-increasing score order, and leaves the heap and the signatures as
\* they were, so that any consider after it does what it would have done
C18_ResultsDescPure ==
    (pc = "heap" /\ hist.last.op = "results_desc") =>
        /\ Len(result) = Len(hist.last.before.heap)
        /\ \A b \in Range(hist.last.before.heap) : CountOf(result, b) = 1
        /\ \A i \in 1..(Len(result) - 1) : result[i].score >= result[i + 1].score
        /\ top = hist.last.before
        /\ \A build \in HeapBuilds :
               consider(top, build) = consider(hist.last.before, build)

\* results_desc on a full heap, after an eviction, whose list is not in
\* descending order
C18_Witness ==
    /\ pc = "heap"
    /\ hist.last.op = "results_desc"
    /\ Len(top.heap) = top.max_size
    /\ top.max_size >= 2
    /\ result # top.heap
    /\ Cardinality(hist.submitted) > top.max_size

-----------------------------------------------------------------------------
(* Claims about the search, checked under SpecSearch *)

\* the exhaustive enumeration: the walk of depth_first_search over the same
\* tree and candidates, in the same order, with the same scorer and the
\* same collector, and neither of the two bound tests
RECURSIVE C3_Node(_, _, _, _, _)
RECURSIVE C3_Keys(_, _, _, _, _, _)
RECURSIVE C3_Cands(_, _, _, _, _, _)
C3_Node(node, u, chosen, sc, t) ==
    LET name == vessel_tree[node]
        t1 == IF name # "" /\ sc.current_score >= minimum
              THEN consider(t, Build(name, chosen, sc.current_score,
                                     active_effects(sc))).top
              ELSE t
    IN  C3_Keys(node, sorted_keys(vessel_tree, node), u, chosen, sc, t1)

C3_Keys(node, keys, u, chosen, sc, t) ==
    IF keys = <<>> THEN t
    ELSE LET child == Append(node, Head(keys))
             pool == SelectSeq(candidates(scored_relics, Head(keys)),
                               LAMBDA i : ~u[i])
             t1 == IF pool = <<>>
                   THEN C3_Node(child, u, Append(chosen, None), sc, t)
                   ELSE C3_Cands(child, pool, u, chosen, sc, t)
         IN  C3_Keys(node, Tail(keys), u, chosen, sc, t1)

C3_Cands(child, pool, u, chosen, sc, t) ==
    IF pool = <<>> THEN t
    ELSE LET i == Head(pool)
             t1 == C3_Node(child, [u EXCEPT ![i] = TRUE], Append(chosen, i),
                           push_relic(sc, scored_relics[i].relic,
                                      score_table).sc, t)
         IN  C3_Cands(child, Tail(pool), u, chosen, sc, t1)

C3_Exhaustive ==
    results_desc(C3_Node(<<>>, [i \in 1..Len(scored_relics) |-> FALSE], <<>>,
                         NewScorer, NewHeap(top.max_size)))

\* C3: the search returns the same set of builds, as signatures with
\* scores, as the exhaustive enumeration
C3_PruningSoundness ==
    pc = "done" =>
        {ClaimSignature(b) : b \in Range(result)}
            = {ClaimSignature(b) : b \in Range(C3_Exhaustive)}

\* the slots of a build fit the edges that lead to the node
C10_Fits(build, node) ==
    /\ Len(node) = Len(build.relic_indexes)
    /\ \A i \in 1..Len(node) :
           LET index == build.relic_indexes[i]
           IN  index # None =>
                   /\ index \in 1..Len(scored_relics)
                   /\ node[i] # Wildcard =>
                          scored_relics[index].relic.color = node[i]

\* C10: the returned list has at most K builds, in non-increasing score
\* order, each with score >= minimum and made at a node that has a name
C10_ResultShape ==
    pc = "done" =>
        /\ Len(result) <= top.max_size
        /\ \A i \in 1..(Len(result) - 1) : result[i].score >= result[i + 1].score
        /\ \A i \in 1..Len(result) :
               /\ result[i].score >= minimum
               /\ result[i].vessel_name # ""
               /\ \E node \in DOMAIN vessel_tree :
                      /\ vessel_tree[node] = result[i].vessel_name
                      /\ C10_Fits(result[i], node)

\* a search that filled the heap, evicted, and returned builds of two
\* scores, above a positive minimum
C10_Witness ==
    /\ pc = "done"
    /\ top.max_size >= 2
    /\ Len(result) = top.max_size
    /\ result[1].score > result[2].score
    /\ minimum >= 1
    /\ Len(scored_relics) >= 3

\* C11: the search leaves a slot empty only at a wildcard edge: a call that
\* recursed with the empty-slot marker did so over a wildcard edge, and no
\* build held or returned has an empty slot at a concrete-colour position
C11_EmptySlotWildcardOnly ==
    pc \in {"search", "done"} =>
        /\ \A d \in 1..Len(stack) :
               stack[d].label = "emptyback" =>
                   stack[d].keys[stack[d].ki] = Wildcard
        /\ \A b \in Range(top.heap) \cup Range(result) :
               \A node \in DOMAIN vessel_tree :
                   (/\ vessel_tree[node] = b.vessel_name
                    /\ Len(node) = Len(b.relic_indexes))
                   => \A i \in 1..Len(node) :
                          b.relic_indexes[i] = None => node[i] = Wildcard

-----------------------------------------------------------------------------
(* Claims checked under SpecScenario *)

\* relics A (Red), B (Red), C (Blue), K = 5, minimum = 1 (the table, the
\* tree and prune = 1 are those of every search of SpecScenario)
C12_Inputs ==
    /\ hist.relics = <<RedVigor, RedVigor, BlueVigor0>>
    /\ top.max_size = 5
    /\ minimum = 1
    /\ hist.prune = 1

\* C12: in the scenario the top result scores 30 and uses all three relics,
\* and the assignments A,C,B and B,C,A are one returned entry
C12_Scenario ==
    (pc = "done" /\ C12_Inputs) =>
        /\ result # <<>>
        /\ result[1].score = 30
        /\ Range(result[1].relic_indexes) = {1, 2, 3}
        /\ Cardinality({i \in 1..Len(result) :
                           result[i].relic_indexes
                               \in {<<1, 3, 2>>, <<2, 3, 1>>}}) = 1

\* the scenario has run, and both assignments were handed to the collector
C12_Witness ==
    /\ pc = "done"
    /\ C12_Inputs
    /\ <<1, 3, 2>> \in Range(hist.submitted)
    /\ <<2, 3, 1>> \in Range(hist.submitted)

-----------------------------------------------------------------------------
(* Claims checked under SpecAny *)

\* C16: a search called with a count K <= 0 is refused at its entry: it
\* enters no node, pushes no relic, hands no build to the collector, and
\* does not return a result
C16_NonPositiveCountRefused ==
    top.max_size <= 0 =>
        /\ hist.visited = 0
        /\ hist.submitted = <<>>
        /\ scorer = NewScorer
        /\ pc # "done"

\* C17: a search called with a negative minimum or a negative prune is
\* refused at its entry: it enters no node and returns no builds
C17_NegativeThresholdRefused ==
    (minimum < 0 \/ hist.prune < 0) =>
        /\ hist.visited = 0
        /\ pc # "done"
        /\ result = <<>>

\* the stand-alone score of a relic
C19_StandAlone(relic) ==
    get_scored_effects(relic.effects_and_curses, score_table).score

\* C19: the candidates are the relics given whose stand-alone score is at
\* least prune, all of them and in the order given, and every relic seated
\* in the path, in a held build or in a returned build is one of them
C19_PreFilter ==
    pc \in {"search", "raised", "done"} =>
        /\ [i \in 1..Len(scored_relics) |-> scored_relics[i].relic]
               = SelectSeq(hist.relics,
                           LAMBDA r : C19_StandAlone(r) >= hist.prune)
        /\ \A i \in 1..Len(scored_relics) :
               scored_relics[i].score = C19_StandAlone(scored_relics[i].relic)
        /\ \A index \in Range(chosen_indices)
                          \cup UNION {Range(b.relic_indexes) :
                                         b \in Range(top.heap) \cup Range(result)} :
               index # None =>
                   /\ index \in 1..Len(scored_relics)
                   /\ C19_StandAlone(scored_relics[index].relic) >= hist.prune

\* a search that has returned builds, made of relics that score exactly
\* prune, after a relic that scores less was filtered out
C19_Witness ==
    /\ pc = "done"
    /\ result # <<>>
    /\ hist.prune >= 1
    /\ \E i \in 1..Len(hist.relics) : C19_StandAlone(hist.relics[i]) < hist.prune
    /\ \E index \in Range(result[1].relic_indexes) :
           /\ index # None
           /\ scored_relics[index].score = hist.prune

-----------------------------------------------------------------------------
(* Claims checked under SpecTwo *)

\* a call run alone, from its first step to its return: depth_first_search
\* as the recursion it is, on the tree, the candidates and the score table
\* the calls share, with a heap, a scorer and used flags of its own
RECURSIVE C20_Node(_, _, _, _, _, _)
RECURSIVE C20_Keys(_, _, _, _, _, _, _, _)
RECURSIVE C20_Cands(_, _, _, _, _, _, _, _)
C20_Node(node, u, chosen, sc, t, m) ==
    LET name == vessel_tree[node]
        t1 == IF name # "" /\ sc.current_score >= m
              THEN consider(t, Build(name, chosen, sc.current_score,
                                     active_effects(sc))).top
              ELSE t
        bar == IF Len(t1.heap) = t1.max_size
               THEN MaxOf(m, t1.heap[1].score) ELSE m
        future == path_bound(vessel_tree, scored_relics, u, node,
                             depth_cached(vessel_tree, node))
    IN  IF next_keys(vessel_tree, node) = {} THEN t1
        ELSE IF sc.current_score + future < bar THEN t1
        ELSE C20_Keys(node, sorted_keys(vessel_tree, node), u, chosen, sc, t1,
                      m, bar)

C20_Keys(node, keys, u, chosen, sc, t, m, bar) ==
    IF keys = <<>> THEN t
    ELSE LET child == Append(node, Head(keys))
             pool == SelectSeq(candidates(scored_relics, Head(keys)),
                               LAMBDA i : ~u[i])
             t1 == IF pool = <<>>
                   THEN C20_Node(child, u, Append(chosen, None), sc, t, m)
                   ELSE C20_Cands(child, pool, u, chosen, sc, t, m, bar)
         IN  C20_Keys(node, Tail(keys), u, chosen, sc, t1, m, bar)

C20_Cands(child, pool, u, chosen, sc, t, m, bar) ==
    IF pool = <<>> THEN t
    ELSE LET i == Head(pool)
             u1 == [u EXCEPT ![i] = TRUE]
             sc1 == push_relic(sc, scored_relics[i].relic, score_table).sc
             future == path_bound(vessel_tree, scored_relics, u1, child,
                                  depth_cached(vessel_tree, child))
             t1 == IF sc1.current_score + future >= bar
                   THEN C20_Node(child, u1, Append(chosen, i), sc1, t, m)
                   ELSE t
         IN  C20_Cands(child, Tail(pool), u, chosen, sc, t1, m, bar)

C20_Alone(count, m) ==
    results_desc(C20_Node(<<>>, [i \in 1..Len(scored_relics) |-> FALSE], <<>>,
                          NewScorer, NewHeap(count), m))

\* C20: of two calls interleaved on one relic list, tree and score table,
\* each returns the list it returns when run alone, and the relic list, the
\* tree and the score table stay as they were handed over
C20_SharedReadOnly ==
    parked # NoSearch =>
        /\ pc = "done" => result = C20_Alone(top.max_size, minimum)
        /\ parked.pc = "done" =>
               parked.result = C20_Alone(parked.top.max_size, parked.minimum)
        /\ score_table = TwoTable
        /\ vessel_tree = UrnTree(parked.name_to_colors)
        /\ scored_relics = scored_relics_of(hist.relics, TwoTable, hist.prune)

\* one call has returned its builds while the other is in the middle of its
\* walk, a relic in use, its scorer pushed and a build in its heap
C20_Witness ==
    /\ parked # NoSearch
    /\ pc = "done"
    /\ result # <<>>
    /\ parked.pc = "search"
    /\ \E i \in 1..Len(parked.used) : parked.used[i]
    /\ parked.scorer.current_score > 0
    /\ parked.top.heap # <<>>
    /\ parked.top # top
    /\ Len(scored_relics) >= 3

-----------------------------------------------------------------------------
(* Claims checked under SpecJson5 *)

\* C21: json5_load of a JSON text with line comments, block comments and a
\* trailing comma before ] or } returns what json.loads returns for the
\* plain document, whatever stands inside its string literals: escaped
\* quotes, escaped backslashes, comment-like text, a comma before a bracket
C21_Json5SameAsPlain ==
    (pc \in {"returned", "raised"} /\ call.function = "json5_load") =>
        /\ pc = "returned"
        /\ result = json_loads(hist.plain)

-----------------------------------------------------------------------------
(* Claims checked under SpecCsv *)

\* the fields the call maps from columns of the CSV, with the place of the
\* column of each
C22_Mapped ==
    LET column_names == call.source[1]
        mapping == IF "field_to_column_name" \in DOMAIN call.kwargs
                   THEN call.kwargs["field_to_column_name"]
                   ELSE [name \in Range(column_names) |-> name]
    IN  [f \in {g \in DOMAIN mapping : mapping[g] \in Range(column_names)} |->
            CHOOSE i \in 1..Len(column_names) : column_names[i] = mapping[f]]

\* C22: a csv_load call given init_arguments is accepted, and each row it
\* yields has exactly the fields mapped from columns, with the cells of the
\* line, and the init_arguments entries, with the values given
C22_InitArgumentsInjected ==
    (call.function = "csv_load" /\ "init_arguments" \in DOMAIN call.kwargs) =>
        /\ call.raised # "TypeError"
        /\ \A k \in 1..Len(result) :
               LET injected == call.kwargs["init_arguments"]
               IN  /\ DOMAIN result[k] = DOMAIN C22_Mapped \cup DOMAIN injected
                   /\ \A f \in DOMAIN injected : result[k][f] = injected[f]
                   /\ \A f \in DOMAIN C22_Mapped \ DOMAIN injected :
                          result[k][f] = call.source[k + 1][C22_Mapped[f]]

\* the call passes keywords csv_load has, a mapping among them, and the
\* mapping has fewer fields than the CSV has columns
C23_Subset ==
    /\ call.function = "csv_load"
    /\ DOMAIN call.kwargs \subseteq CsvParameters
    /\ "field_to_column_name" \in DOMAIN call.kwargs
    /\ Cardinality(DOMAIN call.kwargs["field_to_column_name"])
           < Len(call.source[1])

-----------------------------------------------------------------------------
(* Claims checked under SpecConverters *)

\* the types some call may bind: those given to register_converter, and
\* the leaf types with a from_string given to _build_converter
C24_Attempted ==
    UNION {{threads[t].types[i] : i \in 1..Len(threads[t].types)} :
              t \in {u \in 1..Len(threads) :
                        threads[u].op = "register_converter"}}
    \cup
    UNION {{typ \in Range(threads[t].types) : has_from_string(typ)} :
              t \in {u \in 1..Len(threads) :
                        threads[u].op = "_build_converter"}}

\* in every state: a register_converter call that has returned bound its
\* type to its converter, one that raised bound nothing, and once every
\* call is over each type attempted that was not registered at the start
\* was bound by exactly one call
C24_State ==
    /\ \A t \in 1..Len(threads) :
           threads[t].op = "register_converter" =>
               /\ threads[t].outcome = "returned" =>
                      /\ threads[t].wrote = {threads[t].types[1]}
                      /\ converter_cache[threads[t].types[1]]
                             = threads[t].converter
               /\ threads[t].outcome = "KeyError" => threads[t].wrote = {}
               /\ threads[t].pc = "done" =>
                      threads[t].outcome \in {"returned", "KeyError"}
    /\ (\A t \in 1..Len(threads) : threads[t].pc = "done") =>
           \A typ \in C24_Attempted \ DOMAIN BuiltinConverters :
               Cardinality({t \in 1..Len(threads) : typ \in threads[t].wrote}) = 1

\* in every step: a type bound stays bound to the same converter, and a
\* register_converter call that finds its type bound raises KeyError with
\* the registry as it was
C24_Step ==
    /\ \A typ \in DOMAIN converter_cache :
           /\ typ \in DOMAIN converter_cache'
           /\ converter_cache'[typ] = converter_cache[typ]
    /\ \A t \in 1..Len(threads) :
           (/\ threads[t].pc = "register_check"
            /\ threads'[t].pc # "register_check"
            /\ threads[t].types[threads[t].i] \in DOMAIN converter_cache)
           => /\ threads'[t].outcome = "KeyError"
              /\ converter_cache' = converter_cache

\* C24: whatever the interleaving of register_converter and
\* _build_converter calls, the converter bound to a type never changes,
\* register_converter for a bound type raises KeyError and leaves the
\* registry as it was, and of the calls that race to bind a new type
\* exactly one binds it
C24_RegistryStable == [](C24_State) /\ [][C24_Step]_vars

\* two register_converter calls for the same new type are over: one has
\* returned, the other raised KeyError
C24_Witness ==
    /\ pc = "threads"
    /\ Len(threads) >= 2
    /\ \A t \in 1..2 : /\ threads[t].op = "register_converter"
                       /\ threads[t].types = <<"FromRegistered">>
                       /\ threads[t].pc = "done"
    /\ threads[1].outcome = "KeyError"
    /\ threads[2].outcome = "returned"
    /\ converter_cache["FromRegistered"] = threads[2].converter

-----------------------------------------------------------------------------
(* Claims checked under SpecWalk *)

\* C25, state by state: when the search has returned no relic is in use,
\* the list of chosen slots is empty and the scorer is as new
C25_State ==
    pc = "done" =>
        /\ \A i \in 1..Len(used) : ~used[i]
        /\ chosen_indices = <<>>
        /\ scorer = NewScorer

\* C25, step by step: the step that ends the trial of a candidate, entered
\* or not, or of an empty slot leaves the used flags, the list of chosen
\* slots and the scorer's current_score, seen_keys, exclusive_taken and
\* active_effects as they were just before the trial
C25_Step ==
    Len(hist'.before) < Len(hist.before) =>
        /\ Len(hist'.before) = Len(hist.before) - 1
        /\ [used |-> used', chosen_indices |-> chosen_indices',
            scorer |-> scorer_view(scorer')] = hist.before[Len(hist.before)]

\* C25: every push has its pop
C25_PushPopBalanced == [](C25_State) /\ [][C25_Step]_vars

\* the trial of a second-slot candidate is just over: its push made two
\* effects active and took a tag, one trial is still open above it, and the
\* search holds what it held before
C25_Witness ==
    /\ pc = "search"
    /\ stack # <<>>
    /\ Len(stack) = 2
    /\ Frame.label = "cand"
    /\ Frame.ci >= 2
    /\ Len(hist.before) = 1
    /\ Len(chosen_indices) = 1
    /\ Frame.index # 0
    /\ Len(scored_relics[Frame.index].relic.effects_and_curses) = 2
    /\ scorer.current_score > 0


\* the scores of the completed builds in the subtree of a node, from a
\* state of the search: every named node, every unused candidate of every
\* edge in turn, the slot left empty where the code leaves it empty
RECURSIVE C26_Scores(_, _, _)
C26_Scores(node, u, sc) ==
    (IF vessel_tree[node] # "" THEN {sc.current_score} ELSE {})
    \cup UNION {
        LET child == Append(node, k)
            pool == {i \in Range(candidates(scored_relics, k)) : ~u[i]}
        IN  IF pool = {} THEN C26_Scores(child, u, sc)
            ELSE UNION {C26_Scores(child, [u EXCEPT ![i] = TRUE],
                                   push_relic(sc, scored_relics[i].relic,
                                              score_table).sc) : i \in pool}
        : k \in next_keys(vessel_tree, node)}

\* the node whose pruning test the state is at or has just made: the node
\* of the frame at its test, the child after a candidate was pushed
C26_TestedNode ==
    IF Frame.label = "bound" THEN Frame.node ELSE Child

\* C26: with a table of non-negative entries, at every pruning test,
\* current_score + path_bound(node, remaining depth) is at least the score
\* of every completed build in the subtree of the node
C26_BoundSound ==
    (/\ pc = "search" /\ stack # <<>>
     /\ Frame.label \in {"bound", "back"}
     /\ \A key \in DOMAIN score_table : score_table[key] >= 0)
    => \A score \in C26_Scores(C26_TestedNode, used, scorer) :
           scorer.current_score
               + path_bound(vessel_tree, scored_relics, used, C26_TestedNode,
                            depth_cached(vessel_tree, C26_TestedNode))
               >= score


\* a deep category, by its name
C27_Deep(color) == color \in {"DeepRed", "DeepBlue", "DeepGreen", "DeepYellow"}

\* the relics seated fit the edges of a path: at a concrete edge the
\* relic's category is the edge's, at a wildcard edge it is not deep
C27_Seated(relic_indexes, node) ==
    /\ Len(relic_indexes) = Len(node)
    /\ \A i \in 1..Len(node) :
           relic_indexes[i] # None =>
               LET color == scored_relics[relic_indexes[i]].relic.color
               IN  IF node[i] = Wildcard THEN ~C27_Deep(color)
                   ELSE color = node[i]

\* C27: the build of every node the search enters, every build the heap
\* holds and every build returned seats at each concrete edge a relic of
\* that category and at each wildcard edge a relic that is not deep
C27_SlotCategories ==
    /\ (pc = "search" /\ stack # <<>> /\ Frame.label = "visit") =>
           C27_Seated(chosen_indices, Frame.node)
    /\ pc \in {"search", "done"} =>
           \A b \in Range(top.heap) \cup Range(result) :
               \A node \in DOMAIN vessel_tree :
                   vessel_tree[node] = b.vessel_name =>
                       C27_Seated(b.relic_indexes, node)

\* a returned build has a relic in a wildcard slot, and the list of relics
\* has a deep relic that scores as much and is in no returned build
C27_Witness ==
    /\ pc = "done"
    /\ \E b \in Range(result), node \in DOMAIN vessel_tree :
           /\ vessel_tree[node] = b.vessel_name
           /\ \E i \in 1..Len(node) :
                  /\ node[i] = Wildcard
                  /\ b.relic_indexes[i] # None
                  /\ \E d \in 1..Len(scored_relics) :
                         /\ C27_Deep(scored_relics[d].relic.color)
                         /\ scored_relics[d].score
                                >= scored_relics[b.relic_indexes[i]].score
                         /\ \A b2 \in Range(result) :
                                d \notin Range(b2.relic_indexes)

\* C28: at every node the search enters no relic index is chosen twice,
\* used[i] holds exactly for the indexes chosen, and the list of chosen
\* slots is as long as the node is deep
C28_NoRelicTwice ==
    (pc = "search" /\ stack # <<>> /\ Frame.label = "visit") =>
        /\ \A i, j \in 1..Len(chosen_indices) :
               (chosen_indices[i] = chosen_indices[j]
                /\ chosen_indices[i] # None) => i = j
        /\ \A i \in 1..Len(used) : used[i] <=> i \in Range(chosen_indices)
        /\ Len(chosen_indices) = Len(Frame.node)

\* a node two edges deep is entered with two relics chosen, a third relic
\* free, after an earlier candidate of the edge was tried and given back
C28_Witness ==
    /\ pc = "search" /\ stack # <<>> /\ Frame.label = "visit"
    /\ Len(Frame.node) = 2
    /\ None \notin Range(chosen_indices)
    /\ Len(used) = 3
    /\ stack[Len(stack) - 1].ci >= 2


\* the categories in ascending order of their string value
C30_Alphabetical ==
    <<"Blue", "DeepBlue", "DeepGreen", "DeepRed", "DeepYellow", "Green",
      "Red", "UNKNOWN", "Yellow">>

\* the place of an edge in the order of the claim, the wildcard last
C30_Rank(key) ==
    IF key = Wildcard THEN Len(C30_Alphabetical) + 1
    ELSE CHOOSE i \in 1..Len(C30_Alphabetical) : C30_Alphabetical[i] = key

C30_EdgesOf(node) ==
    {key \in Range(C30_Alphabetical) \cup {Wildcard} :
        Append(node, key) \in DOMAIN vessel_tree}

\* a set of edges in the order of the claim
RECURSIVE C30_Ordered(_)
C30_Ordered(keys) ==
    IF keys = {} THEN <<>>
    ELSE LET first == CHOOSE k \in keys :
                          \A k2 \in keys : C30_Rank(k) <= C30_Rank(k2)
         IN  <<first>> \o C30_Ordered(keys \ {first})

\* the unused relics that fit an edge, the higher stand-alone score first
\* and, of two that score the same, the earlier in the list first
RECURSIVE C30_BestFirst(_)
C30_BestFirst(pool) ==
    IF pool = {} THEN <<>>
    ELSE LET first ==
                 CHOOSE i \in pool :
                     \A j \in pool :
                         \/ scored_relics[i].score > scored_relics[j].score
                         \/ /\ scored_relics[i].score = scored_relics[j].score
                            /\ i <= j
         IN  <<first>> \o C30_BestFirst(pool \ {first})

C30_Pool(key, u) ==
    C30_BestFirst({i \in 1..Len(scored_relics) :
                      /\ ~u[i]
                      /\ IF key = Wildcard
                         THEN ~C27_Deep(scored_relics[i].relic.color)
                         ELSE scored_relics[i].relic.color = key})

\* the walk in the order of the claim, with the two bound tests of the
\* search: the heap it leaves and the builds it hands over, in order
RECURSIVE C30_Node(_, _, _, _, _)
RECURSIVE C30_Keys(_, _, _, _, _, _, _)
RECURSIVE C30_Cands(_, _, _, _, _, _, _)
C30_Node(node, u, chosen, sc, w) ==
    LET name == vessel_tree[node]
        submit == name # "" /\ sc.current_score >= minimum
        w1 == IF submit
              THEN [t |-> consider(w.t, Build(name, chosen, sc.current_score,
                                              active_effects(sc))).top,
                    sub |-> Append(w.sub, chosen)]
              ELSE w
        bar == IF Len(w1.t.heap) = w1.t.max_size
               THEN MaxOf(minimum, w1.t.heap[1].score) ELSE minimum
        future == path_bound(vessel_tree, scored_relics, u, node,
                             depth_cached(vessel_tree, node))
    IN  IF C30_EdgesOf(node) = {} THEN w1
        ELSE IF sc.current_score + future < bar THEN w1
        ELSE C30_Keys(node, C30_Ordered(C30_EdgesOf(node)), u, chosen, sc, w1,
                      bar)

C30_Keys(node, keys, u, chosen, sc, w, bar) ==
    IF keys = <<>> THEN w
    ELSE LET child == Append(node, Head(keys))
             pool == C30_Pool(Head(keys), u)
             w1 == IF pool = <<>>
                   THEN C30_Node(child, u, Append(chosen, None), sc, w)
                   ELSE C30_Cands(child, pool, u, chosen, sc, w, bar)
         IN  C30_Keys(node, Tail(keys), u, chosen, sc, w1, bar)

C30_Cands(child, pool, u, chosen, sc, w, bar) ==
    IF pool = <<>> THEN w
    ELSE LET i == Head(pool)
             u1 == [u EXCEPT ![i] = TRUE]
             sc1 == push_relic(sc, scored_relics[i].relic, score_table).sc
             future == path_bound(vessel_tree, scored_relics, u1, child,
                                  depth_cached(vessel_tree, child))
             w1 == IF sc1.current_score + future >= bar
                   THEN C30_Node(child, u1, Append(chosen, i), sc1, w)
                   ELSE w
         IN  C30_Cands(child, Tail(pool), u, chosen, sc, w1, bar)

\* the builds a run hands to the collector, in order, as the inputs alone
\* fix them
C30_Submitted ==
    C30_Node(<<>>, [i \in 1..Len(scored_relics) |-> FALSE], <<>>, NewScorer,
             [t |-> NewHeap(top.max_size), sub |-> <<>>]).sub

\* C30, state by state: the edges a call walks at a node are all the edges
\* of the node, each once, the concrete ones in ascending order of their
\* string value and the wildcard last; and a run that has returned handed
\* its builds over in the order the inputs fix
C30_State ==
    /\ pc = "search" =>
           \A d \in 1..Len(stack) :
               stack[d].label \in {"cand", "back", "emptyback"} =>
                   /\ Range(stack[d].keys) = C30_EdgesOf(stack[d].node)
                   /\ \A i, j \in 1..Len(stack[d].keys) :
                          i < j => C30_Rank(stack[d].keys[i])
                                       < C30_Rank(stack[d].keys[j])
                   /\ stack[d].ki \in 1..Len(stack[d].keys)
    /\ pc = "done" => hist.submitted = C30_Submitted

\* C30, step by step: a call goes from an edge to the next in that order,
\* and the candidate it takes for an edge scores, alone, no more than the
\* one it took before for the same edge
C30_Step ==
    (/\ pc = "search" /\ pc' = "search"
     /\ stack # <<>> /\ Len(stack') >= Len(stack)
     /\ Frame.label = "cand")
    => LET after == stack'[Len(stack)]
       IN  /\ after.node = Frame.node
           /\ after.ki \in {Frame.ki, Frame.ki + 1}
           /\ after.label = "back" =>
                  /\ after.ki = Frame.ki
                  /\ ~used[after.index]
                  /\ Frame.used_any =>
                         scored_relics[after.index].score
                             <= scored_relics[Frame.index].score

\* C30: the traversal order
C30_TraversalOrder == [](C30_State) /\ [][C30_Step]_vars

\* a run has returned after handing over three builds or more, on a tree
\* whose root has a Blue and a Red edge, with two relics of one category
\* of which the later in the list scores more, both seated in builds
C30_Witness ==
    /\ pc = "done"
    /\ Len(hist.submitted) >= 3
    /\ {Blue, Red} \subseteq C30_EdgesOf(<<>>)
    /\ \E i, j \in 1..Len(scored_relics) :
           /\ i < j
           /\ scored_relics[i].relic.color = scored_relics[j].relic.color
           /\ scored_relics[i].score < scored_relics[j].score
           /\ \E a, b \in 1..Len(hist.submitted) :
                  /\ a < b
                  /\ j \in Range(hist.submitted[a])
                  /\ i \in Range(hist.submitted[b])
                  /\ j \notin Range(hist.submitted[b])

(* Claims checked under SpecWalkRuns *)

\* top_builds has returned results_desc(): the builds the collector holds,
\* each once, the higher score first
C32_Returned ==
    /\ pc = "done"
    /\ Len(result) = Len(top.heap)
    /\ \A b \in Range(top.heap) :
           Cardinality({i \in 1..Len(result) : result[i] = b})
               = Cardinality({i \in 1..Len(top.heap) : top.heap[i] = b})
    /\ \A i, j \in 1..Len(result) : i < j => result[i].score >= result[j].score

\* no two entries to depth_first_search are for the same node with the
\* same candidates chosen on the path to it
C32_OncePerChoice ==
    \A a, b \in 1..Len(hist.entered) :
        a # b => hist.entered[a] # hist.entered[b]

\* C32: the depth-first search terminates: top_builds eventually returns
\* the result list of the collector, and depth_first_search is entered at
\* most once for a path and a choice of candidates along it
C32_SearchTerminates == <>(C32_Returned) /\ [](C32_OncePerChoice)

\* a call has returned after entering depth_first_search five times or
\* more, two relics seated in its last build
C32_Witness ==
    /\ C32_Returned
    /\ Len(hist.entered) >= 5
    /\ result # <<>>
    /\ \E i, j \in 1..Len(scored_relics) :
           i # j /\ {i, j} \subseteq Range(result[1].relic_indexes)

-----------------------------------------------------------------------------
(* UrnTree as the objects it is made of: nightreign.py UrnTree.add_single. *)
(* The tree is the sequence of its UrnTree objects in order of creation,   *)
(* the root first; next maps an edge key to the place of the child.        *)

MaxAdds == 3

\* UrnTree(): name "", next {}
NewUrnTree == [name |-> "", next |-> <<>>]

\* add_single with no lookup of current.next[color]: a new UrnTree for
\* every color
RECURSIVE add_single_always_new(_, _, _, _)
add_single_always_new(tree, current, name, colors) ==
    IF colors = <<>> THEN [tree EXCEPT ![current].name = name]
    ELSE LET color == Head(colors)
             created == Len(tree) + 1
             others == DOMAIN tree[current].next \ {color}
         IN  add_single_always_new(
                 Append([tree EXCEPT ![current].next =
                            [k \in others \cup {color} |->
                                IF k = color THEN created
                                ELSE tree[current].next[k]]],
                        NewUrnTree),
                 created, name, Tail(colors))

\* the loop of add_single from `current` over the colors left, then
\* current.name = name
RECURSIVE add_single_from(_, _, _, _)
add_single_from(tree, current, name, colors) ==
    IF colors = <<>> THEN [tree EXCEPT ![current].name = name]
    ELSE LET color == Head(colors)
         IN  IF color \in DOMAIN tree[current].next
             THEN add_single_from(tree, tree[current].next[color], name,
                                  Tail(colors))
             ELSE LET created == Len(tree) + 1
                  IN  add_single_from(
                          Append([tree EXCEPT ![current].next =
                                     (color :> created) @@ @],
                                 NewUrnTree),
                          created, name, Tail(colors))

TrieNames == {"Urn", "Goblet", "Cup"}

TrieColors ==
    { <<>>, <<Red>>, <<Wildcard>>, <<Red, Red>>, <<Red, Wildcard>>,
      <<Wildcard, Red>>, <<Red, Wildcard, Red>> }

\* UrnTree(): hist is the sequence of (name, colors) of the add_single calls
InitTrie ==
    /\ score_table = <<>>
    /\ scorer = NewScorer
    /\ top = NewHeap(0)
    /\ scored_relics = <<>>
    /\ vessel_tree = <<NewUrnTree>>
    /\ minimum = 0
    /\ used = <<>>
    /\ chosen_indices = <<>>
    /\ stack = <<>>
    /\ parked = NoSearch
    /\ UtilityIdle
    /\ pc = "tree"
    /\ result = <<>>
    /\ hist = <<>>

\* self.add_single(name, colors)
AddSingle(name, colors) ==
    /\ pc = "tree"
    /\ Len(hist) < MaxAdds
    /\ vessel_tree' = add_single_from(vessel_tree, 1, name, colors)
    /\ hist' = Append(hist, <<name, colors>>)
    /\ UNCHANGED <<score_table, scorer, top, scored_relics, minimum, used,
                   chosen_indices, stack, parked, Utility, pc, result>>

NextTrie == \E name \in TrieNames, colors \in TrieColors : AddSingle(name, colors)

SpecTrie == InitTrie /\ [][NextTrie]_vars

(* Claims checked under SpecTrie *)

\* the node reached from `current` edge by edge along colors, 0 when an
\* edge is missing
RECURSIVE C31_Follow(_, _)
C31_Follow(current, colors) ==
    IF colors = <<>> THEN current
    ELSE IF Head(colors) \in DOMAIN vessel_tree[current].next
         THEN C31_Follow(vessel_tree[current].next[Head(colors)], Tail(colors))
         ELSE 0

C31_DistinctSequences ==
    \A a, b \in 1..Len(hist) : a # b => hist[a][2] # hist[b][2]

\* C31: after inserting targets of which no two have the same sequence,
\* following a target's sequence from the root ends at a node named after
\* it; the tree has one node for each prefix of the inserted sequences, so
\* targets with a common prefix share its nodes; and a named node ends an
\* inserted sequence
C31_TrieConstruction ==
    (pc = "tree" /\ C31_DistinctSequences) =>
        /\ \A a \in 1..Len(hist) :
               /\ C31_Follow(1, hist[a][2]) # 0
               /\ vessel_tree[C31_Follow(1, hist[a][2])].name = hist[a][1]
        /\ Len(vessel_tree)
               = Cardinality(UNION {Prefixes(hist[a][2]) : a \in 1..Len(hist)}
                                 \cup {<<>>})
        /\ \A node \in 1..Len(vessel_tree) :
               vessel_tree[node].name # "" =>
                   \E a \in 1..Len(hist) : C31_Follow(1, hist[a][2]) = node

\* three targets are inserted, two of them through a common edge, and the
\* tree has an unnamed node
C31_Witness ==
    /\ pc = "tree" /\ C31_DistinctSequences
    /\ Len(hist) = 3
    /\ \E a, b \in 1..3 :
           /\ a # b /\ hist[a][1] # hist[b][1]
           /\ Len(hist[a][2]) >= 2 /\ Len(hist[b][2]) >= 2
           /\ hist[a][2][1] = hist[b][2][1]
    /\ \E node \in 1..Len(vessel_tree) : vessel_tree[node].name = ""

\* C39: every target name inserted is the name of some node
C39_NamesStayReachable ==
    pc = "tree" =>
        \A a \in 1..Len(hist) :
            \E node \in 1..Len(vessel_tree) :
                vessel_tree[node].name = hist[a][1]

-----------------------------------------------------------------------------
(* More claims checked under SpecScorer *)

RECURSIVE C33_ScoreSum(_)
C33_ScoreSum(effects) ==
    IF effects = <<>> THEN 0
    ELSE score_of(Head(effects), score_table) + C33_ScoreSum(Tail(effects))

-----------------------------------------------------------------------------
(* More claims checked under SpecHeap *)

\* the scores of the k highest-scoring signatures of a set, as a sequence
RECURSIVE C34_Largest(_, _)
C34_Largest(sigs, k) ==
    IF k = 0 \/ sigs = {} THEN <<>>
    ELSE LET best == CHOOSE sig \in sigs : \A o \in sigs : sig[1] >= o[1]
         IN  <<best[1]>> \o C34_Largest(sigs \ {best}, k - 1)

C34_HeldScores == [i \in 1..Len(top.heap) |-> top.heap[i].score]

\* C34: the scores held, counted with multiplicity, are the K largest
\* scores over the distinct signatures submitted so far
C34_HoldsLargest ==
    pc = "heap" =>
        LET largest == C34_Largest(hist.submitted, top.max_size)
        IN  /\ Len(C34_HeldScores) = Len(largest)
            /\ \A score \in Range(largest) \cup Range(C34_HeldScores) :
                   CountOf(C34_HeldScores, score) = CountOf(largest, score)

\* more distinct signatures were submitted than the collector holds, a
\* build was evicted, and two held builds score the same
C34_Witness ==
    /\ pc = "heap"
    /\ top.max_size = 2 /\ Len(top.heap) = 2
    /\ Cardinality(hist.submitted) >= 4
    /\ hist.dropped # {}
    /\ top.heap[1].score = top.heap[2].score
    /\ top.heap[1].score > 0


\* two builds the claim calls equal: the same score, the same set of slot
\* contents, the same set of active effects
C35_Alike(a, b) ==
    /\ a.score = b.score
    /\ Range(a.relic_indexes) = Range(b.relic_indexes)
    /\ Range(a.active_effects) = Range(b.active_effects)

\* no two builds held are alike
C35_State ==
    pc = "heap" =>
        \A i, j \in 1..Len(top.heap) :
            C35_Alike(top.heap[i], top.heap[j]) => i = j

\* a build alike to one submitted before it is dropped
C35_Step ==
    (/\ pc = "heap"
     /\ hist'.last.op = "consider"
     /\ \E sig \in hist.submitted :
            /\ sig[1] = hist'.last.build.score
            /\ sig[2] = Range(hist'.last.build.relic_indexes)
            /\ sig[3] = Range(hist'.last.build.active_effects))
    => top' = top

\* C35: of builds with equal score, equal set of slot contents and equal
\* set of active effects, whatever their target names and slot orders, only
\* the first submitted is taken; a later one is dropped, also when the
\* collector has room
C35_SignatureIgnoresNameAndOrder == [](C35_State) /\ [][C35_Step]_vars

\* a build was dropped by a collector with room that holds a build alike
\* to it for another target, the relics in another slot order
C35_Witness ==
    /\ pc = "heap"
    /\ hist.last.op = "consider"
    /\ top = hist.last.before
    /\ Len(top.heap) < top.max_size
    /\ \E i \in 1..Len(top.heap) :
           /\ C35_Alike(top.heap[i], hist.last.build)
           /\ top.heap[i].vessel_name # hist.last.build.vessel_name
           /\ top.heap[i].relic_indexes # hist.last.build.relic_indexes


\* C37: the signature set is the set of the signatures of the builds in
\* the heap: as many signatures as builds, the signature of every build
\* held in the set, and no signature in it of a build that was submitted
\* and is not held (evicted or rejected)
C37_SignaturesAreHeld ==
    pc = "heap" =>
        /\ Cardinality(top.signatures) = Len(top.heap)
        /\ \A i \in 1..Len(top.heap) :
               ClaimSignature(top.heap[i]) \in top.signatures
        /\ \A sig \in hist.submitted :
               sig \notin HeldSignatures(top) => sig \notin top.signatures

\* a full collector of two does not hold two of the signatures submitted,
\* one that scores below its minimum held score and one that scores the same
C37_Witness ==
    /\ pc = "heap"
    /\ top.max_size = 2 /\ Len(top.heap) = 2
    /\ Cardinality(hist.submitted \ HeldSignatures(top)) >= 2
    /\ \E sig \in hist.submitted \ HeldSignatures(top) : sig[1] < MinHeld(top)
    /\ \E sig \in hist.submitted \ HeldSignatures(top) : sig[1] = MinHeld(top)

-----------------------------------------------------------------------------
(* More claims checked under SpecWalk *)

C36_Full(t) == Len(t.heap) = t.max_size

\* the acceptance bar of the search: max(minimum, minimum held score) once
\* the collector is full, minimum before
C36_Bar(t) ==
    IF C36_Full(t)
    THEN (IF MinHeld(t) >= minimum THEN MinHeld(t) ELSE minimum)
    ELSE minimum

\* no signature evicted so far is held
C36_State ==
    pc \in {"search", "done"} =>
        hist.evicted \cap HeldSignatures(top) = {}

\* a step of the search leaves a full collector full, does not lower its
\* minimum held score, does not lower the bar, and admits no build whose
\* signature was evicted
C36_Step ==
    pc = "search" =>
        /\ C36_Full(top) => C36_Full(top') /\ MinHeld(top') >= MinHeld(top)
        /\ C36_Bar(top') >= C36_Bar(top)
        /\ hist.evicted \cap HeldSignatures(top') = {}

\* C36: once the collector is full its minimum held score never decreases,
\* the bar max(minimum, minimum held score) is non-decreasing over the
\* whole search, and a build whose signature was evicted is never admitted
\* again
C36_BarNeverFalls == [](C36_State) /\ [][C36_Step]_vars

\* a search has returned in which the bar rose above minimum and a build
\* whose signature had been evicted was handed to consider again
C36_Witness ==
    /\ pc = "done"
    /\ hist.again # {}
    /\ C36_Full(top)
    /\ C36_Bar(top) > minimum

-----------------------------------------------------------------------------
(* Entity.find_offset on Section.INVENTORY: nightreign.py. data is the     *)
(* sequence of its places, each holding what the header that starts there  *)
(* decodes to: "relic" (an entity that is no empty slot), "empty" (a       *)
(* well-formed empty slot) or "junk" (no entity); offsets are 0-based.     *)

\* _INVENTORY_BLOCK_SIZE_TABLE: 14 for every entity type
InventoryBlockSize == 14

NoEntity == [entity_type |-> "none", size |-> 0]

\* Entity.from_data(Section.INVENTORY, data, offset): None unless a header
\* decodes at offset and the block lies within data
from_data(data, offset) ==
    IF offset + InventoryBlockSize <= Len(data) /\ data[offset + 1] # "junk"
    THEN [entity_type |-> data[offset + 1], size |-> InventoryBlockSize]
    ELSE NoEntity

\* the inner while of find_offset: TRUE when it returns offset
RECURSIVE find_offset_entries(_, _, _, _)
find_offset_entries(data, entry_offset, entries, required_non_empty_count) ==
    IF entry_offset < Len(data) /\ from_data(data, entry_offset) # NoEntity
    THEN LET entry == from_data(data, entry_offset)
             counted == entry.entity_type # "empty"
             entries1 == IF counted THEN entries + 1 ELSE entries
         IN  IF counted /\ entries1 >= required_non_empty_count
             THEN TRUE
             ELSE find_offset_entries(data, entry_offset + entry.size,
                                      entries1, required_non_empty_count)
    ELSE FALSE

\* while max_offset is None or offset <= max_offset; max_offset None is <<>>
outer_while(max_offset, offset) ==
    max_offset = <<>> \/ offset <= max_offset[1]

Junk(n) == [i \in 1..n |-> "junk"]

\* one block of data: the header and the rest of the block
Block(kind) == <<kind>> \o Junk(InventoryBlockSize - 1)

RECURSIVE Blocks(_)
Blocks(kinds) ==
    IF kinds = <<>> THEN <<>> ELSE Block(Head(kinds)) \o Blocks(Tail(kinds))

\* data: leading bytes that are no entity, then up to two blocks, then a
\* block cut short
FindOffsetData ==
    {Junk(lead) \o Blocks(kinds) \o tail :
        lead \in {0, 3},
        kinds \in {<<>>, <<"relic">>, <<"empty">>, <<"relic", "relic">>,
                   <<"relic", "empty">>, <<"empty", "relic">>,
                   <<"empty", "empty">>},
        tail \in {<<>>, <<"relic", "junk">>}}

\* the call: max_offset is <<>> for None (as SaveData.inventory_offset
\* leaves it) or <<n>>; lap tells one pass of the outer while from the next
InitFindOffset ==
    \E data \in FindOffsetData, offset \in {0, 1},
       required_non_empty_count \in {0, 1, 2}, step_size \in {0, 1, 2},
       max_offset \in {<<>>, <<0>>, <<20>>} :
        /\ call = [function |-> "find_offset", data |-> data,
                   offset |-> offset,
                   required_non_empty_count |-> required_non_empty_count,
                   max_offset |-> max_offset, step_size |-> step_size,
                   lap |-> 0]
        /\ pc = "call"
        /\ result = <<>>
        /\ converter_cache = BuiltinConverters
        /\ converter_lock = NewLock
        /\ threads = <<>>
        /\ BuildFinderIdle
        /\ hist = [offset |-> offset]

FindOffsetFrame ==
    UNCHANGED <<BuildFinderVars, converter_cache, converter_lock, threads, hist>>

\* lines 145-150: the two argument tests
FindOffsetEnter ==
    /\ pc = "call" /\ call.function = "find_offset"
    /\ IF call.step_size < 1 \/ call.required_non_empty_count < 1
       THEN pc' = "raised" /\ result' = <<"ValueError">>
       ELSE pc' = "while" /\ result' = result
    /\ call' = call
    /\ FindOffsetFrame

\* lines 151-163: one pass of the outer while, or return None when its
\* guard is false. result is <<offset>> or, for None, <<>>. An offset at or
\* past len(data) is kept without the step added when max_offset is None:
\* from there every pass is the same, the inner while being false at once
FindOffsetPass ==
    /\ pc = "while" /\ call.function = "find_offset"
    /\ IF outer_while(call.max_offset, call.offset)
       THEN IF find_offset_entries(call.data, call.offset, 0,
                                   call.required_non_empty_count)
            THEN /\ pc' = "returned"
                 /\ result' = <<call.offset>>
                 /\ call' = call
            ELSE /\ pc' = pc
                 /\ result' = result
                 /\ call' = [call EXCEPT
                       !.offset = IF call.max_offset = <<>>
                                     /\ call.offset >= Len(call.data)
                                  THEN call.offset
                                  ELSE call.offset + call.step_size,
                       !.lap = 1 - call.lap]
       ELSE /\ pc' = "returned"
            /\ result' = <<>>
            /\ call' = call
    /\ FindOffsetFrame

NextFindOffset ==
    \/ FindOffsetEnter
    \/ FindOffsetPass

\* the call runs on: nothing in find_offset waits
SpecFindOffset ==
    InitFindOffset /\ [][NextFindOffset]_vars /\ WF_vars(NextFindOffset)

(* Claims checked under SpecFindOffset *)

\* the non-empty entities that parse one after the other from an offset
RECURSIVE C38_Run(_, _)
C38_Run(data, at) ==
    IF at + InventoryBlockSize <= Len(data) /\ data[at + 1] # "junk"
    THEN (IF data[at + 1] = "empty" THEN 0 ELSE 1)
             + C38_Run(data, at + InventoryBlockSize)
    ELSE 0

\* the offsets the call scans that qualify
C38_Qualifying ==
    {o \in 0..Len(call.data) :
        /\ o >= hist.offset
        /\ (o - hist.offset) % call.step_size = 0
        /\ call.max_offset # <<>> => o <= call.max_offset[1]
        /\ C38_Run(call.data, o) >= call.required_non_empty_count}

C38_Expected ==
    IF C38_Qualifying = {} THEN <<>>
    ELSE <<CHOOSE o \in C38_Qualifying : \A o2 \in C38_Qualifying : o <= o2>>

\* C38: find_offset terminates on every input, and what it returns is the
\* first scanned offset from which required_non_empty_count non-empty
\* entities parse one after the other, or None when no scanned offset
\* qualifies, with max_offset None too
C38_FindOffsetTerminates ==
    /\ <>(pc \in {"returned", "raised"})
    /\ [](pc = "returned" => result = C38_Expected)

-----------------------------------------------------------------------------
(* More claims checked under SpecConverters *)

\* C40: the converter _build_converter made and cached for a leaf type
\* with a from_string calls the from_string of that type, whatever leaf
\* types the same call went on to and at every later use
C40_CallsOwnFromString ==
    pc = "threads" =>
        \A typ \in DOMAIN converter_cache \ DOMAIN BuiltinConverters :
            converter_cache[typ][1] = "from_string" =>
                method_called(converter_cache[typ], threads) = <<"method", typ>>

=============================================================================
